---------------------------- MODULE Spec2Model ----------------------------
(***************************************************************************)
(* A state-machine model of the UFootball backend (Django / DRF):          *)
(* roster cap, tournament matches and their GlobalMatch mirror, match      *)
(* lifecycle, visibility, lineup -> career stat propagation and standings. *)
(*                                                                         *)
(* The database tables are the variables.  Every request handler is one    *)
(* action, taken atomically (requests executed one at a time).  Each       *)
(* family of claims is checked under a specification whose Next offers     *)
(* the handlers of that family with a small request alphabet.              *)
(*                                                                         *)
(* Users, clubs, teams, tournaments, groups and phases are a fixed world:  *)
(* no handler modelled here creates or deletes them.  Columns that no      *)
(* modelled handler reads (names, logos, timestamps, referees, positions,  *)
(* last_updated_by, round and match numbers) are left out of the rows.     *)
(* A nullable column holds {} for NULL and {v} for the value v.            *)
(***************************************************************************)
EXTENDS Integers, FiniteSets, Sequences, TLC

VARIABLES
    roster,         \* teams.Player, primary keys abstracted: row value -> number of rows
    players,        \* teams.Player, by primary key: id -> row
    team_groups,    \* tournaments.TeamGroup: set of <<team, group>>
    tmatches,       \* tournaments.Match: id -> row
    gmatches,       \* matches.Match (GlobalMatch): id -> row
    lineups,        \* matches.MatchLineup: <<match, team, player>> -> row
    events,         \* matches.MatchEvent: sequence of rows
    response,       \* outcome of the last request
    listed,         \* history: the rows returned by the last request, if it listed any
    lastSaved,      \* history: the tournaments.Match saves of the last request
    statLog,        \* history: the lineup saves propagated to career counters
    served,         \* number of requests served so far (bounds the exploration)
    tournaments,    \* tournaments.Tournament: id -> row
    groups,         \* tournaments.TournamentGroup: id -> row
    inflight        \* requests between their read and their write: id -> locals

vars == <<roster, players, team_groups, tmatches, gmatches, lineups, events,
          response, listed, lastSaved, statLog, served, tournaments, groups,
          inflight>>

None == "none"

Max(a, b) == IF a >= b THEN a ELSE b

\* an optional value: {} when absent (or NULL), {v} when present
Opt(S) == {{}} \cup {{x} : x \in S}
Get(o, default) == IF o = {} THEN default ELSE CHOOSE x \in o : TRUE

\* request bodies with no field, or with the single field f
NoBody == [f \in {} |-> {}]
OneField(f, S) == {[g \in {f} |-> {v}] : v \in S}

\* a table row written or removed
Put(table, id, row) == (id :> row) @@ table
Drop(table, ids) == [i \in DOMAIN table \ ids |-> table[i]]

RECURSIVE SumOver(_, _)
SumOver(f, S) ==
    IF S = {} THEN 0
    ELSE LET x == CHOOSE y \in S : TRUE IN f[x] + SumOver(f, S \ {x})

(***************************************************************************)
(* The fixed world.                                                        *)
(***************************************************************************)
Anon == "anonymous"
Users == {"admin1", "admin2", "staff1", "staff2", "parent1", "parent2", "viewer1"}

user_type(u) ==
    CASE u \in {"admin1", "admin2"}   -> "admin"
      [] u \in {"staff1", "staff2"}   -> "staff"
      [] u \in {"parent1", "parent2"} -> "parent"
      [] u = "viewer1"                -> "viewer"
      [] OTHER                        -> None

is_authenticated(u) == u # Anon

NumTeams == 2
Teams == 1 .. NumTeams

\* Team.club and Club.owner: team 1 is in staff1's club, the others in staff2's
team_club(t) == IF t = 1 THEN 1 ELSE 2
club_owner(c) == IF c = 1 THEN "staff1" ELSE "staff2"
\* Team.coach (any User): team 1 is coached by viewer1, team 2 by parent1
team_coach(t) == IF t = 1 THEN "viewer1" ELSE IF t = 2 THEN "parent1" ELSE None
\* Team.followers: parent2 follows team 1
team_followers(t) == IF t = 1 THEN {"parent2"} ELSE {}

NumTournaments == 2
Tournaments == 1 .. NumTournaments
\* Tournament.organizer
organizer(t) == tournaments[t].organizer
\* Tournament.points_per_win / _draw / _loss (tournament 2 keeps the defaults
\* 3/1/0, tournament 1 is configured with 3/2/1)
points_per_win(t) == 3
points_per_draw(t) == IF t = 1 THEN 2 ELSE 1
points_per_loss(t) == IF t = 1 THEN 1 ELSE 0

NumGroups == 2
Groups == 1 .. NumGroups
\* TournamentGroup.tournament
group_tournament(g) == groups[g].tournament

\* Tournament.TYPE_CHOICES
TournamentTypes == {"league", "group_knockout"}
\* TournamentGroup.name, unique within a tournament
GroupNames == {"A", "B"}

\* the stored tournaments of the specifications that create none: group and
\* knockout tournaments, tournament 1 organized by admin1, the others by admin2
SeedTournaments ==
    [t \in Tournaments |->
        [tournament_type |-> "group_knockout", number_of_groups |-> 2,
         organizer |-> IF t = 1 THEN "admin1" ELSE "admin2"]]
\* the stored groups of the specifications that create none: groups 1 and 2
\* are in tournament 1
SeedGroups ==
    [g \in Groups |->
        [tournament |-> IF g <= 2 THEN 1 ELSE 2,
         name |-> IF g = 2 THEN "B" ELSE "A"]]
SeedWorld ==
    /\ tournaments = SeedTournaments
    /\ groups = SeedGroups
    /\ inflight = <<>>

\* TournamentPhase, identified by its phase_type
PhaseTypes == {"group_stage", "round_16", "quarter_final", "semi_final",
               "final", "third_place"}

IsStaffUserType(u) == user_type(u) = "staff"
IsAdminActiveUserType(u) == user_type(u) = "admin"
IsAdminOrStaffUserType(u) == user_type(u) \in {"admin", "staff"}
IsAdminOrStaffOrParentUserType(u) == user_type(u) \in {"admin", "staff", "parent"}

\* the check repeated in every Player handler
OwnerOrCoach(u, t) == club_owner(team_club(t)) = u \/ team_coach(t) = u

Respond(op, code) == response' = [op |-> op, code |-> code]

\* history of a request that saves no tournament match and lists nothing
Quiet == lastSaved' = {} /\ listed' = {}

\* no tournament or group is written and no request is left half done
Settled == UNCHANGED <<tournaments, groups, inflight>>

(***************************************************************************)
(* Roster: teams.Player with the columns team, is_main_player, is_active.  *)
(* Rows are interchangeable for the cap, so the roster specification keeps *)
(* the table as the bag `roster` (and `players` empty); the specifications *)
(* that need primary keys keep it as `players` (and `roster` empty).       *)
(***************************************************************************)
MaxPlayers == 12
MAX_MAIN_PLAYERS == 11

PlayerRow == [team : Teams, is_main_player : BOOLEAN, is_active : BOOLEAN]

PlayerCount == SumOver(roster, PlayerRow)

MainRow(t) == [team |-> t, is_main_player |-> TRUE, is_active |-> TRUE]

\* variant of MainCount whose filter matches no row
MainCount_no_row(t) == 0

\* Player.objects.filter(team=t, is_main_player=True, is_active=True).count()
MainCount(t) == roster[MainRow(t)]

\* ... .exclude(pk=self.pk).count(), self being a stored row with value old
MainCountExcluding(t, old) ==
    MainCount(t) - (IF old = MainRow(t) THEN 1 ELSE 0)

AddRow(bag, r) == [bag EXCEPT ![r] = @ + 1]
RemoveRow(bag, r) == [bag EXCEPT ![r] = @ - 1]

\* variant of PlayerCleanOk without the limit
PlayerCleanNoCap(row, countOthers) == TRUE

\* Player.clean, run by Player.save through full_clean
PlayerCleanOk(row, countOthers) ==
    row.is_main_player => countOthers < MAX_MAIN_PLAYERS

\* PlayerSerializer.validate: counts on the team of the request body
PlayerSerializerOk(body_main, body_team, countOthers) ==
    body_main => countOthers < MAX_MAIN_PLAYERS

\* a Player request touches no other table
OnlyRoster ==
    /\ UNCHANGED <<players, team_groups, tmatches, gmatches, lineups, events, statLog>>
    /\ Quiet
    /\ Settled

\* POST /teams/<team_pk>/roster/
PlayerCreate(u, url_team, body_team, is_main, is_active) ==
    LET row == [team |-> url_team, is_main_player |-> is_main, is_active |-> is_active]
    IN  /\ PlayerCount < MaxPlayers
        /\ IF ~IsStaffUserType(u) \/ ~OwnerOrCoach(u, url_team)
           THEN /\ Respond("player_create", "permission_denied")
                /\ UNCHANGED roster
           ELSE IF ~PlayerSerializerOk(is_main, body_team, MainCount(body_team))
                   \/ ~PlayerCleanOk(row, MainCount(url_team))
           THEN /\ Respond("player_create", "validation_error")
                /\ UNCHANGED roster
           ELSE /\ roster' = AddRow(roster, row)
                /\ Respond("player_create", "ok")
    /\ OnlyRoster

\* PUT/PATCH /teams/<team_pk>/roster/<pk>/ ; a field of the body may be absent
PlayerUpdate(u, old, body_team, body_main, body_active) ==
    LET new == [team           |-> Get(body_team, old.team),
                is_main_player |-> Get(body_main, old.is_main_player),
                is_active      |-> Get(body_active, old.is_active)]
        \* data.get('team') is None when absent: filter(team=None) counts nothing
        ser_count == IF body_team = {} THEN 0
                     ELSE MainCountExcluding(Get(body_team, old.team), old)
    IN  /\ roster[old] > 0
        /\ IF ~IsStaffUserType(u) \/ ~OwnerOrCoach(u, old.team)
           THEN /\ Respond("player_update", "permission_denied")
                /\ UNCHANGED roster
           ELSE IF ~PlayerSerializerOk(Get(body_main, FALSE), body_team, ser_count)
                   \/ ~PlayerCleanOk(new, MainCountExcluding(new.team, old))
           THEN /\ Respond("player_update", "validation_error")
                /\ UNCHANGED roster
           ELSE /\ roster' = AddRow(RemoveRow(roster, old), new)
                /\ Respond("player_update", "ok")
    /\ OnlyRoster

\* POST .../roster/<pk>/set_as_main/
set_as_main(u, old) ==
    LET new == [old EXCEPT !.is_main_player = TRUE]
    IN  /\ roster[old] > 0
        /\ IF ~IsStaffUserType(u) \/ ~OwnerOrCoach(u, old.team)
           THEN /\ Respond("set_as_main", "permission_denied")
                /\ UNCHANGED roster
           ELSE IF MainCountExcluding(old.team, old) >= MAX_MAIN_PLAYERS
                   \/ ~PlayerCleanOk(new, MainCountExcluding(new.team, old))
           THEN /\ Respond("set_as_main", "validation_error")
                /\ UNCHANGED roster
           ELSE /\ roster' = AddRow(RemoveRow(roster, old), new)
                /\ Respond("set_as_main", "ok")
    /\ OnlyRoster

\* POST .../roster/<pk>/remove_as_main/
remove_as_main(u, old) ==
    LET new == [old EXCEPT !.is_main_player = FALSE]
    IN  /\ roster[old] > 0
        /\ IF ~IsStaffUserType(u) \/ ~OwnerOrCoach(u, old.team)
           THEN /\ Respond("remove_as_main", "permission_denied")
                /\ UNCHANGED roster
           ELSE /\ roster' = AddRow(RemoveRow(roster, old), new)
                /\ Respond("remove_as_main", "ok")
    /\ OnlyRoster

\* DELETE .../roster/<pk>/
PlayerDestroy(u, old) ==
    /\ roster[old] > 0
    /\ IF ~IsStaffUserType(u) \/ ~OwnerOrCoach(u, old.team)
       THEN /\ Respond("player_destroy", "permission_denied")
            /\ UNCHANGED roster
       ELSE /\ roster' = RemoveRow(roster, old)
            /\ Respond("player_destroy", "ok")
    /\ OnlyRoster

(***************************************************************************)
(* Matches: tournaments.Match, its mirror matches.Match (GlobalMatch), and *)
(* the lineup rows the create handlers add.                                *)
(***************************************************************************)
MaxMatches == 2
MatchIds == 1 .. MaxMatches
MaxScore == 1
Scores == 0 .. MaxScore
NumDates == 2
Dates == 1 .. NumDates
Venues == {"", "stade"}

\* tournaments.Match.STATUS_CHOICES and matches.Match.STATUS_CHOICES
TStatuses == {"scheduled", "live", "finished", "postponed", "cancelled"}
GStatuses == TStatuses \cup {"half_time"}

\* the primary key (uuid4) of a new match: one no stored match has
UsedMatchIds == DOMAIN tmatches \cup DOMAIN gmatches
CanCreateMatch == MatchIds \ UsedMatchIds # {}
NewMatchId == CHOOSE i \in MatchIds \ UsedMatchIds :
                  \A j \in MatchIds \ UsedMatchIds : i <= j

\* sync_match_to_global: match_type from the phase
phase_type_mapping(pt) ==
    CASE pt = "group_stage"   -> "group_stage"
      [] pt = "round_16"      -> "knockout"
      [] pt = "quarter_final" -> "quarter_final"
      [] pt = "semi_final"    -> "semi_final"
      [] pt = "final"         -> "final"
      [] pt = "third_place"   -> "third_place"
      [] OTHER                -> "group_stage"

\* sync_match_to_global: the mirrored columns of a tournament match
match_data(inst) ==
    [tournament     |-> {inst.tournament},
     phase          |-> inst.phase,
     group          |-> inst.group,
     home_team      |-> inst.home_team,
     away_team      |-> inst.away_team,
     scheduled_date |-> inst.match_date,
     venue_name     |-> inst.venue,
     home_score     |-> inst.home_score,
     away_score     |-> inst.away_score,
     status         |-> inst.status,
     match_type     |-> IF inst.phase = {} THEN "group_stage"
                        ELSE phase_type_mapping(Get(inst.phase, None))]

\* the columns of matches.Match the synchronizer does not write, at their defaults
GlobalOnlyDefaults ==
    [actual_start_time |-> FALSE,
     actual_end_time   |-> FALSE,
     notes             |-> "",
     created_by        |-> None]

\* variants of update_or_create: one that leaves a stored row alone, one that
\* adds the scores to the stored ones
create_if_missing(table, id, defaults) ==
    IF id \in DOMAIN table THEN table
    ELSE Put(table, id, defaults @@ GlobalOnlyDefaults)
update_adding_scores(table, id, defaults) ==
    IF id \in DOMAIN table
    THEN Put(table, id, [defaults EXCEPT !.home_score = @ + table[id].home_score,
                                         !.away_score = @ + table[id].away_score]
                        @@ table[id])
    ELSE Put(table, id, defaults @@ GlobalOnlyDefaults)

\* variant of update_or_create that rewrites the whole row
update_or_create_whole_row(table, id, defaults) ==
    Put(table, id, defaults @@ GlobalOnlyDefaults)

\* GlobalMatch.objects.update_or_create(id=..., defaults=...)
update_or_create(table, id, defaults) ==
    IF id \in DOMAIN table
    THEN Put(table, id, defaults @@ table[id])
    ELSE Put(table, id, defaults @@ GlobalOnlyDefaults)

\* post_save receiver of tournaments.Match
sync_match_to_global(table, id, inst) == update_or_create(table, id, match_data(inst))

\* the main players a create handler lines up for a team
MainPlayers(t) ==
    {p \in DOMAIN players :
        /\ players[p].team = t
        /\ players[p].is_main_player
        /\ players[p].is_active}

NewLineup ==
    [is_starter |-> TRUE, goals_scored |-> 0, assists |-> 0,
     yellow_cards |-> 0, red_cards |-> 0, minutes_played |-> 0]

\* for player in main_players: MatchLineup.objects.create(...)
PopulateLineups(table, m, t) ==
    [k \in {<<m, t, p>> : p \in MainPlayers(t)} |-> NewLineup] @@ table

\* on_delete=CASCADE from matches.Match to its lineups and events
LineupsWithout(m) == Drop(lineups, {k \in DOMAIN lineups : k[1] = m})
EventsWithout(m) == SelectSeq(events, LAMBDA e : e.match # m)

\* history of a save: the id, and the two rows of that id as they were before
Saved(id) ==
    [id     |-> id,
     before |-> IF id \in DOMAIN tmatches THEN {tmatches[id]} ELSE {},
     mirror |-> IF id \in DOMAIN gmatches THEN {gmatches[id]} ELSE {}]

\* Match.objects.create(...) of both create-match endpoints, the post_save
\* synchronisation it triggers, and the lineups added after it
CreateTournamentMatch(op, t, g, ph, home, away, date, venue) ==
    LET id  == NewMatchId
        row == [tournament |-> t, group |-> g, phase |-> ph,
                home_team |-> home, away_team |-> away,
                match_date |-> date, venue |-> venue,
                home_score |-> 0, away_score |-> 0, status |-> "scheduled"]
    IN  /\ tmatches' = Put(tmatches, id, row)
        /\ gmatches' = sync_match_to_global(gmatches, id, row)
        /\ lineups' = PopulateLineups(PopulateLineups(lineups, id, home), id, away)
        /\ lastSaved' = {Saved(id)}
        /\ listed' = {}
        /\ Respond(op, "ok")
        /\ UNCHANGED <<team_groups, events>>

\* a request that is refused changes no table
Refuse(op, code) ==
    /\ Respond(op, code)
    /\ Quiet
    /\ UNCHANGED <<team_groups, tmatches, gmatches, lineups, events>>

\* the tables no match handler writes
MatchFrame == UNCHANGED <<roster, players, statLog>> /\ Settled

\* teams a parent is tied to: followed, or of a player whose parent_email or
\* parent2_email is the user's (tournaments views)
ParentTeamsBoth(u) ==
    {t \in Teams : u \in team_followers(t)}
    \cup {players[p].team : p \in {q \in DOMAIN players :
             players[q].parent_email = u \/ players[q].parent2_email = u}}

InTournament(team, t) ==
    \E tg \in team_groups : tg[1] = team /\ group_tournament(tg[2]) = t

\* variant of TournamentVisible whose queryset holds every tournament for
\* every caller
TournamentVisible_every_caller(u, t) == TRUE

\* TournamentViewSet.get_queryset
TournamentVisible(u, t) ==
    CASE ~is_authenticated(u)     -> FALSE
      [] user_type(u) = "viewer"  -> TRUE
      [] user_type(u) = "admin"   -> organizer(t) = u
      [] user_type(u) = "staff"   ->
            \E team \in Teams : club_owner(team_club(team)) = u /\ InTournament(team, t)
      [] user_type(u) = "parent"  ->
            \E team \in ParentTeamsBoth(u) : InTournament(team, t)
      [] OTHER                    -> FALSE

\* CreateMatchSerializer.validate; group is {} when the view passes no context
CreateMatchSerializerOk(home, away, group) ==
    /\ home # away
    /\ \A g \in group : <<home, g>> \in team_groups /\ <<away, g>> \in team_groups

\* POST /tournaments/<id>/matches/create/
Tournament_create_match(u, t, home, away, group_id, phase_id, date, venue) ==
    /\ CanCreateMatch
    /\ MatchFrame
    /\ IF ~TournamentVisible(u, t)
       THEN Refuse("tournament_create_match", "not_found")
       ELSE IF is_authenticated(u) /\ organizer(t) # u
       THEN Refuse("tournament_create_match", "permission_denied")
       ELSE IF ~CreateMatchSerializerOk(home, away, {})
       THEN Refuse("tournament_create_match", "validation_error")
       ELSE IF \E g \in group_id : group_tournament(g) # t
       THEN Refuse("tournament_create_match", "not_found")
       ELSE CreateTournamentMatch("tournament_create_match", t, group_id, phase_id,
                                  home, away, date, venue)

\* POST /groups/<pk>/create-match/
Group_create_match(u, g, home, away, phase_id, date, venue) ==
    /\ CanCreateMatch
    /\ MatchFrame
    /\ IF ~IsAdminActiveUserType(u)
       THEN Refuse("group_create_match", "permission_denied")
       ELSE IF organizer(group_tournament(g)) # u
       THEN Refuse("group_create_match", "permission_denied")
       ELSE IF ~CreateMatchSerializerOk(home, away, {g})
       THEN Refuse("group_create_match", "validation_error")
       ELSE CreateTournamentMatch("group_create_match", group_tournament(g), {g},
                                  phase_id, home, away, date, venue)

\* POST /groups/<pk>/add-team/
add_team(u, g, team) ==
    /\ MatchFrame
    /\ IF ~IsAdminActiveUserType(u) \/ organizer(group_tournament(g)) # u
       THEN Refuse("add_team", "permission_denied")
       ELSE IF <<team, g>> \in team_groups
       THEN Refuse("add_team", "validation_error")
       ELSE /\ team_groups' = team_groups \cup {<<team, g>>}
            /\ Respond("add_team", "ok")
            /\ Quiet
            /\ UNCHANGED <<tmatches, gmatches, lineups, events>>

\* DELETE /groups/<pk>/remove-team/<team_id>/
remove_team(u, g, team) ==
    /\ MatchFrame
    /\ IF ~IsAdminActiveUserType(u) \/ organizer(group_tournament(g)) # u
       THEN Refuse("remove_team", "permission_denied")
       ELSE IF <<team, g>> \notin team_groups
       THEN Refuse("remove_team", "not_found")
       ELSE /\ team_groups' = team_groups \ {<<team, g>>}
            /\ Respond("remove_team", "ok")
            /\ Quiet
            /\ UNCHANGED <<tmatches, gmatches, lineups, events>>

\* variant of TournamentMatchVisible with no filter by role
TournamentMatchVisible_unfiltered(u, id) == is_authenticated(u)

\* tournaments MatchViewSet.get_queryset (without query parameters)
TournamentMatchVisible(u, id) ==
    LET m == tmatches[id]
    IN  CASE ~is_authenticated(u)    -> FALSE
          [] user_type(u) = "viewer" -> TRUE
          [] user_type(u) = "admin"  -> organizer(m.tournament) = u
          [] user_type(u) = "staff"  ->
                \/ club_owner(team_club(m.home_team)) = u
                \/ club_owner(team_club(m.away_team)) = u
          [] user_type(u) = "parent" ->
                m.home_team \in ParentTeamsBoth(u) \/ m.away_team \in ParentTeamsBoth(u)
          [] OTHER                   -> TRUE

\* Match.save() of a stored tournament match, with its post_save synchronisation
SaveTournamentMatch(op, id, row) ==
    /\ tmatches' = Put(tmatches, id, row)
    /\ gmatches' = sync_match_to_global(gmatches, id, row)
    /\ lastSaved' = {Saved(id)}
    /\ listed' = {}
    /\ Respond(op, "ok")
    /\ UNCHANGED <<team_groups, lineups, events>>

\* the writable fields of tournaments MatchSerializer; each may be absent
TournamentMatchBody ==
    [group : Opt(Opt(Groups)), phase : Opt(Opt(PhaseTypes)),
     home_team : Opt(Teams), away_team : Opt(Teams),
     match_date : Opt(Dates), venue : Opt(Venues),
     home_score : Opt(Scores), away_score : Opt(Scores), status : Opt(TStatuses)]

\* ModelSerializer.update: setattr for every field of the body
ApplyBody(old, body) ==
    [f \in DOMAIN old |-> IF f \in DOMAIN body THEN Get(body[f], old[f]) ELSE old[f]]

\* PUT/PATCH /matches/<pk>/ of the tournaments MatchViewSet
TournamentMatchUpdate(u, id, body) ==
    /\ MatchFrame
    /\ IF ~IsAdminActiveUserType(u)
       THEN Refuse("tmatch_update", "permission_denied")
       ELSE IF id \notin DOMAIN tmatches \/ ~TournamentMatchVisible(u, id)
       THEN Refuse("tmatch_update", "not_found")
       ELSE SaveTournamentMatch("tmatch_update", id, ApplyBody(tmatches[id], body))

\* variant of delete_global_match that removes the GlobalMatch row alone
delete_global_match_row_only(id) ==
    /\ gmatches' = Drop(gmatches, {id})
    /\ lineups' = lineups
    /\ events' = events

\* post_delete receiver of tournaments.Match
delete_global_match(id) ==
    /\ gmatches' = Drop(gmatches, {id})
    /\ lineups' = LineupsWithout(id)
    /\ events' = EventsWithout(id)

\* DELETE /matches/<pk>/ of the tournaments MatchViewSet
TournamentMatchDestroy(u, id) ==
    /\ MatchFrame
    /\ IF ~IsAdminActiveUserType(u)
       THEN Refuse("tmatch_destroy", "permission_denied")
       ELSE IF id \notin DOMAIN tmatches \/ ~TournamentMatchVisible(u, id)
       THEN Refuse("tmatch_destroy", "not_found")
       ELSE /\ tmatches' = Drop(tmatches, {id})
            /\ delete_global_match(id)
            /\ Respond("tmatch_destroy", "ok")
            /\ Quiet
            /\ UNCHANGED team_groups

\* IsMatchCoachOrAdmin.has_object_permission on a match
IsMatchCoachOrAdmin(u, m) ==
    \/ user_type(u) = "admin"
    \/ \E t \in {m.home_team, m.away_team} :
          team_coach(t) = u \/ club_owner(team_club(t)) = u

\* the permission test shared by update_score, start_match and finish_match
ScorePermitted(u, m) == organizer(m.tournament) = u \/ IsMatchCoachOrAdmin(u, m)

\* PATCH /matches/<pk>/update-score/
update_score(u, id, home_score, away_score, status) ==
    /\ MatchFrame
    /\ IF ~IsAdminActiveUserType(u)
       THEN Refuse("update_score", "permission_denied")
       ELSE IF id \notin DOMAIN tmatches \/ ~TournamentMatchVisible(u, id)
       THEN Refuse("update_score", "not_found")
       ELSE IF ~ScorePermitted(u, tmatches[id])
       THEN Refuse("update_score", "permission_denied")
       ELSE SaveTournamentMatch("update_score", id,
               [tmatches[id] EXCEPT !.home_score = home_score,
                                    !.away_score = away_score,
                                    !.status = Get(status, @)])

\* variant of start_match that starts a match whatever its status
start_match_any_status(u, id) ==
    /\ MatchFrame
    /\ IF ~IsAdminActiveUserType(u)
       THEN Refuse("start_match", "permission_denied")
       ELSE IF id \notin DOMAIN tmatches \/ ~TournamentMatchVisible(u, id)
       THEN Refuse("start_match", "not_found")
       ELSE IF ~ScorePermitted(u, tmatches[id])
       THEN Refuse("start_match", "permission_denied")
       ELSE SaveTournamentMatch("start_match", id, [tmatches[id] EXCEPT !.status = "live"])

\* POST /matches/<pk>/start/
start_match(u, id) ==
    /\ MatchFrame
    /\ IF ~IsAdminActiveUserType(u)
       THEN Refuse("start_match", "permission_denied")
       ELSE IF id \notin DOMAIN tmatches \/ ~TournamentMatchVisible(u, id)
       THEN Refuse("start_match", "not_found")
       ELSE IF ~ScorePermitted(u, tmatches[id])
       THEN Refuse("start_match", "permission_denied")
       ELSE IF tmatches[id].status # "scheduled"
       THEN Refuse("start_match", "validation_error")
       ELSE SaveTournamentMatch("start_match", id, [tmatches[id] EXCEPT !.status = "live"])

\* POST /matches/<pk>/finish/
finish_match(u, id) ==
    /\ MatchFrame
    /\ IF ~IsAdminActiveUserType(u)
       THEN Refuse("finish_match", "permission_denied")
       ELSE IF id \notin DOMAIN tmatches \/ ~TournamentMatchVisible(u, id)
       THEN Refuse("finish_match", "not_found")
       ELSE IF ~ScorePermitted(u, tmatches[id])
       THEN Refuse("finish_match", "permission_denied")
       ELSE IF tmatches[id].status \notin {"live", "scheduled"}
       THEN Refuse("finish_match", "validation_error")
       ELSE SaveTournamentMatch("finish_match", id,
                                [tmatches[id] EXCEPT !.status = "finished"])

(***************************************************************************)
(* The general match endpoints (matches app), acting on GlobalMatch.       *)
(***************************************************************************)
MatchTypes == {"group_stage", "knockout", "friendly", "final", "semi_final",
               "quarter_final", "third_place"}

\* teams a parent is tied to in the matches app: followed, or of a player
\* whose parent_email is the user's
ParentTeams(u) ==
    {t \in Teams : u \in team_followers(t)}
    \cup {players[p].team : p \in {q \in DOMAIN players : players[q].parent_email = u}}

\* user.coached_teams
coached_teams(u) == {t \in Teams : team_coach(t) = u}

\* get_user_allowed_matches: the ids of the GlobalMatch rows a user may see
get_user_allowed_matches(u) ==
    LET Playing(ts) == {id \in DOMAIN gmatches :
                          gmatches[id].home_team \in ts \/ gmatches[id].away_team \in ts}
    IN  CASE ~is_authenticated(u)     -> {}
          [] user_type(u) = "admin"   ->
                {id \in DOMAIN gmatches : gmatches[id].created_by = u}
          [] user_type(u) = "staff"   ->
                Playing({t \in Teams : club_owner(team_club(t)) = u})
          [] coached_teams(u) # {}    -> Playing(coached_teams(u))
          [] user_type(u) = "parent"  -> Playing(ParentTeams(u))
          [] OTHER                    -> {}

\* a new matches.Match: the model's defaults, then the fields of the body
NewGlobalMatch(body, u) ==
    LET base == [tournament |-> {}, phase |-> {}, group |-> {},
                 home_team |-> 1, away_team |-> 1, scheduled_date |-> 1,
                 venue_name |-> "", home_score |-> 0, away_score |-> 0,
                 status |-> "scheduled", match_type |-> "group_stage",
                 notes |-> ""]
    IN  [f \in DOMAIN base |-> IF f \in DOMAIN body THEN Get(body[f], base[f]) ELSE base[f]]
        @@ [actual_start_time |-> FALSE, actual_end_time |-> FALSE, created_by |-> u]

\* matches MatchSerializer: the required fields on create, and venue_name not blank
Present(body, f) == f \in DOMAIN body /\ body[f] # {}
GlobalCreateValid(body) ==
    /\ \A f \in {"home_team", "away_team", "scheduled_date", "venue_name"} : Present(body, f)
    /\ body.venue_name # {""}
GlobalUpdateValid(body) == "venue_name" \in DOMAIN body => body.venue_name # {""}

\* variant of GlobalMatchCreate in which a staff user needs no club of home_team
GlobalMatchCreate_any_club(u, body) ==
    /\ CanCreateMatch
    /\ MatchFrame
    /\ IF ~IsAdminOrStaffUserType(u)
       THEN Refuse("gmatch_create", "permission_denied")
       ELSE IF ~GlobalCreateValid(body)
       THEN Refuse("gmatch_create", "validation_error")
       ELSE IF user_type(u) = "admin"
       THEN Refuse("gmatch_create", "permission_denied")
       ELSE LET id   == NewMatchId
                row  == NewGlobalMatch(body, u)
                home == PopulateLineups(lineups, id, row.home_team)
            IN  /\ gmatches' = Put(gmatches, id, row)
                /\ IF row.home_team = row.away_team /\ MainPlayers(row.home_team) # {}
                   THEN /\ lineups' = home
                        /\ Respond("gmatch_create", "server_error")
                   ELSE /\ lineups' = PopulateLineups(home, id, row.away_team)
                        /\ Respond("gmatch_create", "ok")
                /\ Quiet
                /\ UNCHANGED <<team_groups, tmatches, events>>

\* POST /matches/ : MatchViewSet.create and perform_create.  The lineup rows
\* are inserted one by one after the match is saved: when home and away are
\* the same team the second pass violates unique (match, team, player).
GlobalMatchCreate(u, body) ==
    /\ CanCreateMatch
    /\ MatchFrame
    /\ IF ~IsAdminOrStaffUserType(u)
       THEN Refuse("gmatch_create", "permission_denied")
       ELSE IF ~GlobalCreateValid(body)
       THEN Refuse("gmatch_create", "validation_error")
       ELSE IF user_type(u) = "admin"
               \/ club_owner(team_club(Get(body.home_team, 1))) # u
       THEN Refuse("gmatch_create", "permission_denied")
       ELSE LET id   == NewMatchId
                row  == NewGlobalMatch(body, u)
                home == PopulateLineups(lineups, id, row.home_team)
            IN  /\ gmatches' = Put(gmatches, id, row)
                /\ IF row.home_team = row.away_team /\ MainPlayers(row.home_team) # {}
                   THEN /\ lineups' = home
                        /\ Respond("gmatch_create", "server_error")
                   ELSE /\ lineups' = PopulateLineups(home, id, row.away_team)
                        /\ Respond("gmatch_create", "ok")
                /\ Quiet
                /\ UNCHANGED <<team_groups, tmatches, events>>

\* variant of NotCreator that bars nobody
NotCreator_nobody(u, m) == FALSE

\* the creator test of perform_update and perform_destroy
NotCreator(u, m) == m.created_by # None /\ m.created_by # u /\ user_type(u) # "admin"

\* PUT/PATCH /matches/<id>/ : MatchViewSet.update and perform_update
GlobalMatchUpdate(u, id, body) ==
    /\ MatchFrame
    /\ IF ~IsAdminOrStaffUserType(u)
       THEN Refuse("gmatch_update", "permission_denied")
       ELSE IF id \notin get_user_allowed_matches(u)
       THEN Refuse("gmatch_update", "not_found")
       ELSE IF ~GlobalUpdateValid(body)
       THEN Refuse("gmatch_update", "validation_error")
       ELSE IF NotCreator(u, gmatches[id])
       THEN Refuse("gmatch_update", "permission_denied")
       ELSE /\ gmatches' = Put(gmatches, id, ApplyBody(gmatches[id], body))
            /\ Respond("gmatch_update", "ok")
            /\ Quiet
            /\ UNCHANGED <<team_groups, tmatches, lineups, events>>

\* DELETE /matches/<id>/ : MatchViewSet.destroy and perform_destroy
GlobalMatchDestroy(u, id) ==
    /\ MatchFrame
    /\ IF ~IsAdminOrStaffUserType(u)
       THEN Refuse("gmatch_destroy", "permission_denied")
       ELSE IF id \notin get_user_allowed_matches(u)
       THEN Refuse("gmatch_destroy", "not_found")
       ELSE IF NotCreator(u, gmatches[id])
       THEN Refuse("gmatch_destroy", "permission_denied")
       ELSE /\ delete_global_match(id)
            /\ Respond("gmatch_destroy", "ok")
            /\ Quiet
            /\ UNCHANGED <<team_groups, tmatches>>

\* the permission block shared by the five match management views
ManagePermitted(u, m) ==
    \/ user_type(u) = "admin"
    \/ /\ m.created_by # None
       /\ m.created_by = u
    \/ /\ m.created_by = None
       /\ IF user_type(u) = "staff"
          THEN club_owner(team_club(m.home_team)) = u
          ELSE team_coach(m.home_team) = u

\* the common shape of the management views: authenticate, fetch, authorise,
\* then save the changed columns
ManageMatch(op, u, id, valid, changed) ==
    /\ MatchFrame
    /\ IF ~is_authenticated(u)
       THEN Refuse(op, "permission_denied")
       ELSE IF id \notin DOMAIN gmatches
       THEN Refuse(op, "not_found")
       ELSE IF ~ManagePermitted(u, gmatches[id])
       THEN Refuse(op, "permission_denied")
       ELSE IF ~valid
       THEN Refuse(op, "validation_error")
       ELSE /\ gmatches' = Put(gmatches, id, changed @@ gmatches[id])
            /\ Respond(op, "ok")
            /\ Quiet
            /\ UNCHANGED <<team_groups, tmatches, lineups, events>>

\* POST /matches/<match_id>/start/
StartMatchView(u, id) ==
    ManageMatch("start", u, id, TRUE, [actual_start_time |-> TRUE, status |-> "live"])

\* POST /matches/<match_id>/finish/
FinishMatchView(u, id) ==
    ManageMatch("finish", u, id, TRUE, [actual_end_time |-> TRUE, status |-> "finished"])

\* POST /matches/<match_id>/postpone/ ; new_date may be absent
PostponeMatchView(u, id, new_date) ==
    ManageMatch("postpone", u, id, new_date # {},
                [scheduled_date |-> Get(new_date, 1), status |-> "postponed"])

\* POST /matches/<match_id>/cancel/
CancelMatchView(u, id) ==
    ManageMatch("cancel", u, id, TRUE, [status |-> "cancelled"])

\* POST /matches/<match_id>/reschedule/ ; new_date may be absent
RescheduleMatchView(u, id, new_date) ==
    ManageMatch("reschedule", u, id, new_date # {},
                [scheduled_date |-> Get(new_date, 1), status |-> "scheduled"])

(***************************************************************************)
(* Lineups and events (matches app), and the propagation of lineup stats   *)
(* to the career counters of teams.Player.                                 *)
(***************************************************************************)
StatFields == {"goals_scored", "assists", "yellow_cards", "red_cards", "minutes_played"}

EventTypes == {"goal", "own_goal", "penalty_goal", "yellow_card", "red_card",
               "substitution", "injury", "timeout"}

\* IsStaffOrCoachUserType: User defines no is_coach, so only staff pass
IsStaffOrCoachUserType(u) == IsStaffUserType(u)

\* the permission block repeated in the event, lineup and stats handlers
TeamManagePermitted(u, team) ==
    \/ user_type(u) = "admin"
    \/ IF user_type(u) = "staff"
       THEN club_owner(team_club(team)) = u
       ELSE team_coach(team) = u

\* variant of the receiver that copies the lineup values
set_career_to_lineup(table, p, old, new) ==
    [table EXCEPT ![p] = [f \in DOMAIN table[p] |->
        IF f \in StatFields THEN new[f] ELSE table[p][f]]]

\* pre_save receiver of MatchLineup, for a stored row: each career counter
\* moves by new - old and is then floored at zero
update_player_stats_on_lineup_change(table, p, old, new) ==
    [table EXCEPT ![p] = [f \in DOMAIN table[p] |->
        IF f \in StatFields THEN Max(0, table[p][f] + new[f] - old[f]) ELSE table[p][f]]]

\* history of one run of the receiver: the goals_scored delta is added to the
\* player's sum, and the save is appended with the career row before and after
Logged(log, p, old, new, before, after) ==
    [sum   |-> [log.sum EXCEPT ![p] = @ + new.goals_scored - old.goals_scored],
     saves |-> Append(log.saves, [player |-> p, old |-> old, new |-> new,
                                  before |-> before, after |-> after])]

\* history of a request: no save yet
NoSaves == [statLog EXCEPT !.saves = <<>>]

\* MatchLineup.save() of the stored row key, with its pre_save receiver
SaveLineup(key, new) ==
    LET after == update_player_stats_on_lineup_change(players, key[3], lineups[key], new)
    IN  /\ lineups' = Put(lineups, key, new)
        /\ players' = after
        /\ statLog' = Logged(NoSaves, key[3], lineups[key], new,
                             players[key[3]], after[key[3]])

\* the tables no lineup or event handler writes
StatsFrame == UNCHANGED <<roster, team_groups, tmatches, gmatches>> /\ Quiet /\ Settled

RefuseStats(op, code) ==
    /\ Respond(op, code)
    /\ statLog' = NoSaves
    /\ UNCHANGED <<players, lineups, events>>

\* MatchEventViewSet.get_queryset / MatchLineupViewSet.get_queryset on a match
StaffOrCoachSees(u, m) ==
    IF user_type(u) = "staff"
    THEN \/ club_owner(team_club(m.home_team)) = u
         \/ club_owner(team_club(m.away_team)) = u
    ELSE m.home_team \in coached_teams(u) \/ m.away_team \in coached_teams(u)

\* the lineup counter an event type increments
EventStat(event_type) ==
    CASE event_type \in {"goal", "penalty_goal"} -> {"goals_scored"}
      [] event_type = "yellow_card"              -> {"yellow_cards"}
      [] event_type = "red_card"                 -> {"red_cards"}
      [] OTHER                                   -> {}

NewEvent(u, match, team, player, event_type) ==
    [match |-> match, team |-> team, player |-> player,
     event_type |-> event_type, created_by |-> u]

\* POST /events/ : MatchEventViewSet.create and perform_create
MatchEventCreate(u, match, team, player, event_type) ==
    LET key == <<match, team, player>>
    IN  /\ StatsFrame
        /\ IF ~is_authenticated(u) \/ ~IsStaffOrCoachUserType(u)
           THEN RefuseStats("event_create", "permission_denied")
           ELSE IF match \notin DOMAIN gmatches \/ player \notin DOMAIN players
           THEN RefuseStats("event_create", "validation_error")
           ELSE IF ~TeamManagePermitted(u, team)
           THEN RefuseStats("event_create", "permission_denied")
           ELSE /\ events' = Append(events, NewEvent(u, match, team, player, event_type))
                /\ Respond("event_create", "ok")
                /\ IF key \in DOMAIN lineups
                   THEN SaveLineup(key, [f \in DOMAIN lineups[key] |->
                            IF f \in EventStat(event_type) THEN lineups[key][f] + 1
                            ELSE lineups[key][f]])
                   ELSE UNCHANGED <<players, lineups>> /\ statLog' = NoSaves

\* POST /matches/<match_id>/events/ : MatchEventsView.post ; team may be absent
MatchEventsView_post(u, match, team, player, event_type) ==
    /\ StatsFrame
    /\ IF ~IsAdminOrStaffUserType(u)
       THEN RefuseStats("events_post", "permission_denied")
       ELSE IF match \notin DOMAIN gmatches
       THEN RefuseStats("events_post", "not_found")
       ELSE IF team = {}
       THEN RefuseStats("events_post", "validation_error")
       ELSE IF ~TeamManagePermitted(u, Get(team, 1))
       THEN RefuseStats("events_post", "permission_denied")
       ELSE IF Get(team, 1) \notin {gmatches[match].home_team, gmatches[match].away_team}
               \/ player \notin DOMAIN players
       THEN RefuseStats("events_post", "validation_error")
       ELSE /\ events' = Append(events, NewEvent(u, match, Get(team, 1), player, event_type))
            /\ Respond("events_post", "ok")
            /\ statLog' = NoSaves
            /\ UNCHANGED <<players, lineups>>

\* a new MatchLineup row: the model's defaults, then the fields of the body
NewLineupFrom(body) ==
    [f \in DOMAIN NewLineup |-> IF f \in DOMAIN body THEN Get(body[f], NewLineup[f])
                                ELSE NewLineup[f]]

\* MatchLineupSerializer on create: the foreign keys exist and
\* (match, team, player) is not taken
LineupCreateValid(key) ==
    /\ key[1] \in DOMAIN gmatches
    /\ key[3] \in DOMAIN players
    /\ key \notin DOMAIN lineups

\* POST /lineups/ : MatchLineupViewSet.create and perform_create
MatchLineupCreate(u, key, body) ==
    /\ StatsFrame
    /\ IF ~is_authenticated(u) \/ ~IsStaffOrCoachUserType(u)
       THEN RefuseStats("lineup_create", "permission_denied")
       ELSE IF ~LineupCreateValid(key)
       THEN RefuseStats("lineup_create", "validation_error")
       ELSE IF ~TeamManagePermitted(u, key[2])
       THEN RefuseStats("lineup_create", "permission_denied")
       ELSE /\ lineups' = Put(lineups, key, NewLineupFrom(body))
            /\ Respond("lineup_create", "ok")
            /\ statLog' = NoSaves
            /\ UNCHANGED <<players, events>>

\* POST /matches/<match_id>/lineups/ : MatchLineupsView.post
MatchLineupsView_post(u, key, body) ==
    /\ StatsFrame
    /\ IF ~IsAdminOrStaffUserType(u)
       THEN RefuseStats("lineups_post", "permission_denied")
       ELSE IF key[1] \notin DOMAIN gmatches
       THEN RefuseStats("lineups_post", "not_found")
       ELSE IF ~TeamManagePermitted(u, key[2])
       THEN RefuseStats("lineups_post", "permission_denied")
       ELSE IF ~LineupCreateValid(key)
       THEN RefuseStats("lineups_post", "validation_error")
       ELSE /\ lineups' = Put(lineups, key, NewLineupFrom(body))
            /\ Respond("lineups_post", "ok")
            /\ statLog' = NoSaves
            /\ UNCHANGED <<players, events>>

\* PUT/PATCH /lineups/<pk>/ : MatchLineupViewSet.update and perform_update
MatchLineupUpdate(u, key, body) ==
    /\ StatsFrame
    /\ IF ~is_authenticated(u) \/ ~IsStaffOrCoachUserType(u)
       THEN RefuseStats("lineup_update", "permission_denied")
       ELSE IF key \notin DOMAIN lineups \/ ~StaffOrCoachSees(u, gmatches[key[1]])
       THEN RefuseStats("lineup_update", "not_found")
       ELSE IF ~TeamManagePermitted(u, key[2])
       THEN RefuseStats("lineup_update", "permission_denied")
       ELSE /\ SaveLineup(key, ApplyBody(lineups[key], body))
            /\ Respond("lineup_update", "ok")
            /\ UNCHANGED events

\* PATCH /matches/<match_id>/lineups/<lineup_id>/ : MatchLineupDetailView.patch
MatchLineupDetailView_patch(u, key, body) ==
    /\ StatsFrame
    /\ IF ~is_authenticated(u)
       THEN RefuseStats("lineup_patch", "permission_denied")
       ELSE IF key \notin DOMAIN lineups
       THEN RefuseStats("lineup_patch", "not_found")
       ELSE IF ~TeamManagePermitted(u, key[2])
       THEN RefuseStats("lineup_patch", "permission_denied")
       ELSE /\ SaveLineup(key, ApplyBody(lineups[key], body))
            /\ Respond("lineup_patch", "ok")
            /\ UNCHANGED events

\* DELETE /matches/<match_id>/lineups/<lineup_id>/ : MatchLineupDetailView.delete
MatchLineupDetailView_delete(u, key) ==
    /\ StatsFrame
    /\ IF ~is_authenticated(u)
       THEN RefuseStats("lineup_delete", "permission_denied")
       ELSE IF key \notin DOMAIN lineups
       THEN RefuseStats("lineup_delete", "not_found")
       ELSE IF ~TeamManagePermitted(u, key[2])
       THEN RefuseStats("lineup_delete", "permission_denied")
       ELSE /\ lineups' = Drop(lineups, {key})
            /\ Respond("lineup_delete", "ok")
            /\ statLog' = NoSaves
            /\ UNCHANGED <<players, events>>

\* POST /matches/<match_id>/set-lineup/ : SetMatchLineupView.post ; team may be
\* absent.  The rows of (match, team) are deleted, then the loop header reads
\* the names starters and substitutes, which the function never binds: the
\* request ends there with a NameError, after the delete.
SetMatchLineupView_post(u, match, team) ==
    /\ StatsFrame
    /\ IF ~is_authenticated(u)
       THEN RefuseStats("set_lineup", "permission_denied")
       ELSE IF match \notin DOMAIN gmatches
       THEN RefuseStats("set_lineup", "not_found")
       ELSE IF team = {}
       THEN RefuseStats("set_lineup", "validation_error")
       ELSE IF ~TeamManagePermitted(u, Get(team, 1))
       THEN RefuseStats("set_lineup", "permission_denied")
       ELSE /\ lineups' = Drop(lineups, {k \in DOMAIN lineups :
                                            k[1] = match /\ k[2] = Get(team, 1)})
            /\ Respond("set_lineup", "server_error")
            /\ statLog' = NoSaves
            /\ UNCHANGED <<players, events>>

\* UpdatePlayerStatsView.post: the items of the payload are handled one after
\* the other, each saved before the next is looked at; st is the state so far
RECURSIVE UpdateItems(_, _, _, _)
UpdateItems(st, u, match, items) ==
    IF items = <<>> THEN st
    ELSE LET item == Head(items)
             key  == <<match, item.team, item.player>>
         IN  IF ~TeamManagePermitted(u, item.team)
             THEN [st EXCEPT !.code = "permission_denied"]
             ELSE IF key \notin DOMAIN st.lineups
             THEN [st EXCEPT !.code = "not_found"]
             ELSE LET old == st.lineups[key]
                      new == ApplyBody(old, item.data)
                      after == update_player_stats_on_lineup_change(
                                   st.players, item.player, old, new)
                  IN  UpdateItems(
                        [lineups |-> Put(st.lineups, key, new),
                         players |-> after,
                         statLog |-> Logged(st.statLog, item.player, old, new,
                                            st.players[item.player], after[item.player]),
                         code    |-> "ok"],
                        u, match, Tail(items))

\* POST /matches/<match_id>/player-stats/
UpdatePlayerStatsView(u, match, items) ==
    /\ StatsFrame
    /\ IF ~is_authenticated(u)
       THEN RefuseStats("player_stats", "permission_denied")
       ELSE IF match \notin DOMAIN gmatches
       THEN RefuseStats("player_stats", "not_found")
       ELSE LET st == UpdateItems([lineups |-> lineups, players |-> players,
                                   statLog |-> NoSaves, code |-> "ok"],
                                  u, match, items)
            IN  /\ lineups' = st.lineups
                /\ players' = st.players
                /\ statLog' = st.statLog
                /\ Respond("player_stats", st.code)
                /\ UNCHANGED events

(***************************************************************************)
(* Group standings (tournaments app).                                      *)
(***************************************************************************)
\* self.team_groups.all(): the teams of the group, in the TeamGroup ordering
group_teams(g) == {tg[1] : tg \in {x \in team_groups : x[2] = g}}

\* variant of home_matches without the status filter
home_matches_any_status(team, g) ==
    {m \in DOMAIN tmatches : tmatches[m].home_team = team /\ tmatches[m].group = {g}}

\* team.tournament_home_matches.filter(group=self, status='finished')
home_matches(team, g) ==
    {m \in DOMAIN tmatches :
        /\ tmatches[m].home_team = team
        /\ tmatches[m].group = {g}
        /\ tmatches[m].status = "finished"}

\* team.tournament_away_matches.filter(group=self, status='finished')
away_matches(team, g) ==
    {m \in DOMAIN tmatches :
        /\ tmatches[m].away_team = team
        /\ tmatches[m].group = {g}
        /\ tmatches[m].status = "finished"}

\* queryset.aggregate(total=Sum(field))['total'] or 0
SumField(ms, field) == SumOver([m \in ms |-> tmatches[m][field]], ms)

\* the dictionary appended for one TeamGroup of the group
standing(team, g) ==
    LET home == home_matches(team, g)
        away == away_matches(team, g)
        wins ==
            Cardinality({m \in home : tmatches[m].home_score > tmatches[m].away_score})
            + Cardinality({m \in away : tmatches[m].away_score > tmatches[m].home_score})
        draws ==
            Cardinality({m \in home : tmatches[m].home_score = tmatches[m].away_score})
            + Cardinality({m \in away : tmatches[m].home_score = tmatches[m].away_score})
        losses ==
            Cardinality({m \in home : tmatches[m].home_score < tmatches[m].away_score})
            + Cardinality({m \in away : tmatches[m].away_score < tmatches[m].home_score})
        goals_scored == SumField(home, "home_score") + SumField(away, "away_score")
        goals_conceded == SumField(home, "away_score") + SumField(away, "home_score")
        points == wins * points_per_win(group_tournament(g))
                  + draws * points_per_draw(group_tournament(g))
                  + losses * points_per_loss(group_tournament(g))
    IN  [team |-> team, played |-> wins + draws + losses,
         wins |-> wins, draws |-> draws, losses |-> losses,
         goals_scored |-> goals_scored, goals_conceded |-> goals_conceded,
         goal_difference |-> goals_scored - goals_conceded, points |-> points]

\* the sort key (-points, -goal_difference, -goals_scored): a sorts before b
SortsBefore(a, b) ==
    \/ a.points > b.points
    \/ a.points = b.points /\ a.goal_difference > b.goal_difference
    \/ /\ a.points = b.points
       /\ a.goal_difference = b.goal_difference
       /\ a.goals_scored > b.goals_scored

SameKey(a, b) ==
    /\ a.points = b.points
    /\ a.goal_difference = b.goal_difference
    /\ a.goals_scored = b.goals_scored

\* variant of position that puts the later-read of two tied teams first
position_ties_reversed(team, g) ==
    1 + Cardinality({o \in group_teams(g) :
            \/ SortsBefore(standing(o, g), standing(team, g))
            \/ SameKey(standing(o, g), standing(team, g)) /\ o > team})

\* the index (from 1) of the team's dictionary after the stable sort
position(team, g) ==
    1 + Cardinality({o \in group_teams(g) :
            \/ SortsBefore(standing(o, g), standing(team, g))
            \/ SameKey(standing(o, g), standing(team, g)) /\ o < team})

\* TournamentGroup.get_standings(): the sorted list, each entry with its position
get_standings(g) ==
    [i \in 1..Cardinality(group_teams(g)) |->
        LET team == CHOOSE t \in group_teams(g) : position(t, g) = i
        IN  [f \in DOMAIN standing(team, g) \cup {"position"} |->
                IF f = "position" THEN i ELSE standing(team, g)[f]]]

\* a read request changes no table
ReadFrame ==
    UNCHANGED <<roster, players, team_groups, tmatches, gmatches, lineups, events,
                statLog>> /\ Settled

\* GET /groups/<pk>/standings/
standings(u, g) ==
    /\ ReadFrame
    /\ lastSaved' = {}
    /\ IF ~IsAdminActiveUserType(u)
       THEN Respond("standings", "permission_denied") /\ listed' = {}
       ELSE /\ Respond("standings", "ok")
            /\ listed' = {[group_id |-> g, standings |-> get_standings(g)]}

\* GET /tournaments/<tournament_id>/standings/ (no TeamTournamentRegistration
\* row exists in the world)
TournamentStandingsView_get(u, t) ==
    LET members == {tg \in team_groups : group_tournament(tg[2]) = t}
        has_access ==
            IF user_type(u) = "admin" THEN organizer(t) = u
            ELSE IF user_type(u) = "staff"
            THEN \E tg \in members : club_owner(team_club(tg[1])) = u
            ELSE IF user_type(u) = "parent"
            THEN \E tg \in members : tg[1] \in ParentTeamsBoth(u)
            ELSE TRUE
    IN  /\ ReadFrame
        /\ lastSaved' = {}
        /\ IF ~is_authenticated(u) \/ ~has_access
           THEN Respond("tournament_standings", "permission_denied") /\ listed' = {}
           ELSE /\ Respond("tournament_standings", "ok")
                /\ listed' = {[group_id |-> g, standings |-> get_standings(g)] :
                                g \in {x \in Groups : group_tournament(x) = t}}

(***************************************************************************)
(* The list and nested-list endpoints.  A listing answers with the rows of *)
(* one family; each is recorded with the user it was returned to.          *)
(***************************************************************************)
\* imported by tournaments/views.py from users.permissions
IsViewerOrAdminOrStaffOrParentUserType(u) ==
    user_type(u) \in {"viewer", "admin", "staff", "parent"}

\* the answer of a listing
Listing(op, u, family, rows) ==
    /\ ReadFrame
    /\ lastSaved' = {}
    /\ Respond(op, "ok")
    /\ listed' = {[family |-> family, user |-> u] @@ r : r \in rows}

\* a listing that is refused
RefuseListing(op, code) ==
    /\ ReadFrame
    /\ lastSaved' = {}
    /\ Respond(op, code)
    /\ listed' = {}

\* GET /matches/ of the matches app: MatchViewSet.list
GlobalMatchList(u) ==
    IF ~IsAdminOrStaffOrParentUserType(u)
    THEN RefuseListing("global_match_list", "permission_denied")
    ELSE Listing("global_match_list", u, "general_match",
                 {[match |-> id] : id \in get_user_allowed_matches(u)})

\* GET /matches/ of the tournaments app, without query parameters
TournamentMatchList(u) ==
    IF ~is_authenticated(u) \/ ~IsViewerOrAdminOrStaffOrParentUserType(u)
    THEN RefuseListing("tournament_match_list", "permission_denied")
    ELSE Listing("tournament_match_list", u, "tournament_match",
                 {[match |-> id] : id \in {m \in DOMAIN tmatches :
                                             TournamentMatchVisible(u, m)}})

\* GET /tournaments/ : TournamentViewSet.list
TournamentList(u) ==
    Listing("tournament_list", u, "tournament",
            {[tournament |-> t] : t \in {x \in Tournaments : TournamentVisible(u, x)}})

\* GET /tournaments/my-tournaments/
my_tournaments(u) ==
    IF ~is_authenticated(u)
    THEN RefuseListing("my_tournaments", "permission_denied")
    ELSE Listing("my_tournaments", u, "tournament",
            {[tournament |-> t] : t \in {x \in Tournaments :
                IF user_type(u) = "parent"
                THEN \E team \in ParentTeamsBoth(u) : InTournament(team, x)
                ELSE organizer(x) = u}})

\* GET /tournaments/<id>/groups/
Tournament_groups(u, t) ==
    IF ~TournamentVisible(u, t)
    THEN RefuseListing("tournament_groups", "not_found")
    ELSE Listing("tournament_groups", u, "group",
                 {[group |-> g] : g \in {x \in Groups : group_tournament(x) = t}})

\* GET /tournaments/<id>/matches/
Tournament_matches(u, t) ==
    IF ~TournamentVisible(u, t)
    THEN RefuseListing("tournament_matches", "not_found")
    ELSE Listing("tournament_matches", u, "tournament_match",
                 {[match |-> id] : id \in {m \in DOMAIN tmatches :
                                             tmatches[m].tournament = t}})

\* GET /groups/ : TournamentGroupViewSet.list
GroupList(u) ==
    IF ~IsAdminActiveUserType(u)
    THEN RefuseListing("group_list", "permission_denied")
    ELSE Listing("group_list", u, "group", {[group |-> g] : g \in Groups})

\* GET /groups/<pk>/matches/
Group_matches(u, g) ==
    IF ~IsAdminActiveUserType(u)
    THEN RefuseListing("group_matches", "permission_denied")
    ELSE Listing("group_matches", u, "tournament_match",
                 {[match |-> id] : id \in {m \in DOMAIN tmatches :
                                             tmatches[m].group = {g}}})

\* GET /events/ : MatchEventViewSet.list
MatchEventList(u) ==
    IF ~is_authenticated(u) \/ ~IsStaffOrCoachUserType(u)
    THEN RefuseListing("event_list", "permission_denied")
    ELSE Listing("event_list", u, "event",
                 {[match |-> events[i].match, event |-> i] :
                    i \in {j \in DOMAIN events :
                             StaffOrCoachSees(u, gmatches[events[j].match])}})

\* GET /matches/<match_id>/events/ : MatchEventsView.get
MatchEventsView_get(u, match_id) ==
    IF ~IsAdminOrStaffUserType(u)
    THEN RefuseListing("match_events", "permission_denied")
    ELSE Listing("match_events", u, "event",
                 {[match |-> events[i].match, event |-> i] :
                    i \in {j \in DOMAIN events : events[j].match = match_id}})

\* GET /lineups/ : MatchLineupViewSet.list
MatchLineupList(u) ==
    IF ~is_authenticated(u) \/ ~IsStaffOrCoachUserType(u)
    THEN RefuseListing("lineup_list", "permission_denied")
    ELSE Listing("lineup_list", u, "lineup",
                 {[match |-> k[1], lineup |-> k] :
                    k \in {x \in DOMAIN lineups : StaffOrCoachSees(u, gmatches[x[1]])}})

\* GET /matches/<match_id>/lineups/ : MatchLineupsView.get
MatchLineupsView_get(u, match_id) ==
    IF ~IsAdminOrStaffUserType(u)
    THEN RefuseListing("match_lineups", "permission_denied")
    ELSE Listing("match_lineups", u, "lineup",
                 {[match |-> k[1], lineup |-> k] :
                    k \in {x \in DOMAIN lineups : x[1] = match_id}})

(***************************************************************************)
(* Tournaments and their groups (tournaments/views.py, TournamentViewSet). *)
(***************************************************************************)
\* values of Tournament.number_of_groups a request sends
MaxNumberOfGroups == 2

\* the tables no tournament or group handler writes
GroupsFrame == UNCHANGED <<roster, players, statLog, inflight>> /\ Quiet

RefuseGroups(op, code) ==
    /\ Respond(op, code)
    /\ UNCHANGED <<tournaments, groups, team_groups, tmatches, gmatches, lineups, events>>

\* the primary key of a new Tournament (uuid4) or TournamentGroup: one no
\* stored row has
CanCreateTournament == Tournaments \ DOMAIN tournaments # {}
NewTournamentId == CHOOSE i \in Tournaments \ DOMAIN tournaments :
                       \A j \in Tournaments \ DOMAIN tournaments : i <= j
CanCreateGroup == Groups \ DOMAIN groups # {}
NewGroupId == CHOOSE i \in Groups \ DOMAIN groups :
                  \A j \in Groups \ DOMAIN groups : i <= j

\* POST /tournaments/: TournamentSerializer (a ModelSerializer, which does not
\* call Tournament.clean, the only rule on the groups of a league) and
\* perform_create
Tournament_create(u, body) ==
    /\ CanCreateTournament
    /\ GroupsFrame
    /\ IF ~IsAdminActiveUserType(u)
       THEN RefuseGroups("tournament_create", "permission_denied")
       ELSE /\ tournaments' = Put(tournaments, NewTournamentId,
                   [tournament_type  |-> Get(body.tournament_type, "league"),
                    number_of_groups |-> Get(body.number_of_groups, 4),
                    organizer        |-> u])
            /\ Respond("tournament_create", "ok")
            /\ UNCHANGED <<groups, team_groups, tmatches, gmatches, lineups, events>>

\* PUT/PATCH /tournaments/<id>/: IsAuthenticated and IsOrganizerOrSuperUser,
\* get_object through get_queryset, perform_update
Tournament_update(u, t, body) ==
    /\ GroupsFrame
    /\ IF ~is_authenticated(u)
       THEN RefuseGroups("tournament_update", "permission_denied")
       ELSE IF ~TournamentVisible(u, t)
       THEN RefuseGroups("tournament_update", "not_found")
       ELSE IF organizer(t) # u
       THEN RefuseGroups("tournament_update", "permission_denied")
       ELSE /\ tournaments' = Put(tournaments, t, ApplyBody(tournaments[t], body))
            /\ Respond("tournament_update", "ok")
            /\ UNCHANGED <<groups, team_groups, tmatches, gmatches, lineups, events>>

\* TournamentGroupSerializer(data).is_valid and save(tournament=...): name is
\* required; tournament is read only, so the pair (tournament, name) is only
\* checked by the database, whose refusal is not caught
SaveGroup(op, t, name) ==
    IF name = {}
    THEN RefuseGroups(op, "validation_error")
    ELSE IF \E g \in DOMAIN groups : groups[g] = [tournament |-> t, name |-> Get(name, "")]
    THEN RefuseGroups(op, "server_error")
    ELSE /\ groups' = Put(groups, NewGroupId, [tournament |-> t, name |-> Get(name, "")])
         /\ Respond(op, "ok")
         /\ UNCHANGED <<tournaments, team_groups, tmatches, gmatches, lineups, events>>

\* POST /tournaments/<id>/groups/
Tournament_groups_post(u, t, name) ==
    /\ CanCreateGroup
    /\ GroupsFrame
    /\ IF ~TournamentVisible(u, t)
       THEN RefuseGroups("groups_post", "not_found")
       ELSE IF ~is_authenticated(u) \/ organizer(t) # u
       THEN RefuseGroups("groups_post", "permission_denied")
       ELSE SaveGroup("groups_post", t, name)

\* POST /tournaments/<id>/groups/create/
add_group(u, t, name) ==
    /\ CanCreateGroup
    /\ GroupsFrame
    /\ IF ~TournamentVisible(u, t)
       THEN RefuseGroups("add_group", "not_found")
       ELSE IF is_authenticated(u) /\ organizer(t) # u
       THEN RefuseGroups("add_group", "permission_denied")
       ELSE SaveGroup("add_group", t, name)

\* DELETE /tournaments/<id>/groups/<group_id>/: the group goes with its
\* TeamGroup rows and its matches (on_delete CASCADE), each match with its
\* GlobalMatch (post_delete receiver); another GlobalMatch of the group loses
\* its group (on_delete SET_NULL)
group_detail_delete(u, t, g) ==
    /\ GroupsFrame
    /\ IF ~TournamentVisible(u, t)
       THEN RefuseGroups("group_delete", "not_found")
       ELSE IF g \notin DOMAIN groups \/ group_tournament(g) # t
       THEN RefuseGroups("group_delete", "not_found")
       ELSE IF ~is_authenticated(u) \/ organizer(t) # u
       THEN RefuseGroups("group_delete", "permission_denied")
       ELSE LET ids == {i \in DOMAIN tmatches : tmatches[i].group = {g}}
            IN  /\ groups' = Drop(groups, {g})
                /\ team_groups' = {tg \in team_groups : tg[2] # g}
                /\ tmatches' = Drop(tmatches, ids)
                /\ gmatches' = [i \in DOMAIN gmatches \ ids |->
                                    IF gmatches[i].group = {g}
                                    THEN [gmatches[i] EXCEPT !.group = {}]
                                    ELSE gmatches[i]]
                /\ lineups' = Drop(lineups, {k \in DOMAIN lineups : k[1] \in ids})
                /\ events' = SelectSeq(events, LAMBDA e : e.match \notin ids)
                /\ Respond("group_delete", "ok")
                /\ UNCHANGED tournaments
(***************************************************************************)
(* Requests served concurrently.  No view, model or receiver opens a       *)
(* transaction or locks a row, so the reads and the writes of one request  *)
(* are separate steps, and steps of other requests may come between them.  *)
(* `inflight` holds what a request has read and not yet written.           *)
(***************************************************************************)
\* the tables the steps of a Player request leave alone
PlayerStepFrame ==
    /\ UNCHANGED <<players, team_groups, tmatches, gmatches, lineups, events, statLog,
                   tournaments, groups>>
    /\ Quiet

\* what a Player request holds after its checks: the stored row it loaded
\* (none for a create), the row it will write, and (history) the table as its
\* checks read it
PendingSave(op, old, new) == [op |-> op, old |-> old, new |-> new, snapshot |-> roster]

\* POST /teams/<team_pk>/roster/ up to the end of full_clean in Player.save:
\* the permission check, PlayerSerializer.validate and Player.clean have
\* counted, nothing is written
PlayerCreate_checks(r, u, url_team, body_team, is_main, is_active) ==
    LET row == [team |-> url_team, is_main_player |-> is_main, is_active |-> is_active]
    IN  /\ IF ~IsStaffUserType(u) \/ ~OwnerOrCoach(u, url_team)
           THEN Respond("player_create", "permission_denied") /\ UNCHANGED inflight
           ELSE IF ~PlayerSerializerOk(is_main, body_team, MainCount(body_team))
                   \/ ~PlayerCleanOk(row, MainCount(url_team))
           THEN Respond("player_create", "validation_error") /\ UNCHANGED inflight
           ELSE /\ inflight' = Put(inflight, r, PendingSave("player_create", {}, row))
                /\ UNCHANGED response
        /\ UNCHANGED roster
        /\ PlayerStepFrame

\* POST .../roster/<pk>/set_as_main/ up to the end of full_clean in
\* Player.save: the view and Player.clean have counted, nothing is written
set_as_main_checks(r, u, old) ==
    LET new == [old EXCEPT !.is_main_player = TRUE]
    IN  /\ roster[old] > 0
        /\ IF ~IsStaffUserType(u) \/ ~OwnerOrCoach(u, old.team)
           THEN Respond("set_as_main", "permission_denied") /\ UNCHANGED inflight
           ELSE IF MainCountExcluding(old.team, old) >= MAX_MAIN_PLAYERS
                   \/ ~PlayerCleanOk(new, MainCountExcluding(new.team, old))
           THEN Respond("set_as_main", "validation_error") /\ UNCHANGED inflight
           ELSE /\ inflight' = Put(inflight, r, PendingSave("set_as_main", {old}, new))
                /\ UNCHANGED response
        /\ UNCHANGED roster
        /\ PlayerStepFrame

\* super().save() at the end of Player.save: the INSERT or UPDATE of the row,
\* on the table as it is by now, and the response
Player_save_write(r) ==
    LET p == inflight[r]
    IN  /\ roster' = IF p.old = {} THEN AddRow(roster, p.new)
                     ELSE AddRow(RemoveRow(roster, Get(p.old, p.new)), p.new)
        /\ Respond(p.op, "ok")
        /\ inflight' = Drop(inflight, {r})
        /\ PlayerStepFrame

\* the tables the steps of a lineup save leave alone
LineupStepFrame ==
    /\ UNCHANGED <<roster, team_groups, tmatches, gmatches, tournaments, groups>>
    /\ Quiet

\* what a lineup save holds once the pre_save receiver has read: the row to
\* write, and the stored MatchLineup row and the Player row as they were read
PendingLineup(op, key, new) ==
    [op |-> op, key |-> key, new |-> new, old |-> lineups[key],
     player |-> players[key[3]], pc |-> "read"]

\* PUT/PATCH /lineups/<pk>/ up to the reads of the pre_save receiver: the
\* view has loaded the row and applied the body, nothing is written
MatchLineupUpdate_reads(r, u, key, body) ==
    /\ LineupStepFrame
    /\ UNCHANGED <<players, lineups, events, statLog>>
    /\ IF ~is_authenticated(u) \/ ~IsStaffOrCoachUserType(u)
       THEN Respond("lineup_update", "permission_denied") /\ UNCHANGED inflight
       ELSE IF key \notin DOMAIN lineups \/ ~StaffOrCoachSees(u, gmatches[key[1]])
       THEN Respond("lineup_update", "not_found") /\ UNCHANGED inflight
       ELSE IF ~TeamManagePermitted(u, key[2])
       THEN Respond("lineup_update", "permission_denied") /\ UNCHANGED inflight
       ELSE /\ inflight' = Put(inflight, r, PendingLineup("lineup_update", key,
                                                          ApplyBody(lineups[key], body)))
            /\ UNCHANGED response

\* POST /events/ up to the reads of the pre_save receiver: the event is
\* stored, the lineup row of its player loaded and counted up, no counter is
\* written
MatchEventCreate_reads(r, u, match, team, player, event_type) ==
    LET key == <<match, team, player>>
    IN  /\ LineupStepFrame
        /\ UNCHANGED <<players, lineups, statLog>>
        /\ IF ~is_authenticated(u) \/ ~IsStaffOrCoachUserType(u)
           THEN Respond("event_create", "permission_denied") /\ UNCHANGED <<inflight, events>>
           ELSE IF match \notin DOMAIN gmatches \/ player \notin DOMAIN players
           THEN Respond("event_create", "validation_error") /\ UNCHANGED <<inflight, events>>
           ELSE IF ~TeamManagePermitted(u, team)
           THEN Respond("event_create", "permission_denied") /\ UNCHANGED <<inflight, events>>
           ELSE /\ events' = Append(events, NewEvent(u, match, team, player, event_type))
                /\ IF key \in DOMAIN lineups
                   THEN /\ inflight' = Put(inflight, r, PendingLineup("event_create", key,
                               [f \in DOMAIN lineups[key] |->
                                   IF f \in EventStat(event_type) THEN lineups[key][f] + 1
                                   ELSE lineups[key][f]]))
                        /\ UNCHANGED response
                   ELSE Respond("event_create", "ok") /\ UNCHANGED inflight

\* player.save() at the end of the pre_save receiver: the Player row as the
\* receiver read it, each counter moved by new - old and floored, written
\* over the stored row
update_player_stats_write(r) ==
    LET s == inflight[r]
        p == s.key[3]
    IN  /\ s.pc = "read"
        /\ players' = update_player_stats_on_lineup_change(Put(players, p, s.player),
                                                           p, s.old, s.new)
        /\ inflight' = [inflight EXCEPT ![r].pc = "player_written"]
        /\ UNCHANGED <<lineups, events, statLog, response>>
        /\ LineupStepFrame

\* super().save() of MatchLineup after the receiver: the UPDATE of the row
\* and the response; (history) the save is logged with the rows it read
MatchLineup_save_write(r) ==
    LET s == inflight[r]
    IN  /\ s.pc = "player_written"
        /\ lineups' = Put(lineups, s.key, s.new)
        /\ statLog' = [sum   |-> [statLog.sum EXCEPT ![s.key[3]] =
                                     @ + s.new.goals_scored - s.old.goals_scored],
                       saves |-> Append(statLog.saves,
                                        [key |-> s.key, old |-> s.old, new |-> s.new])]
        /\ Respond(s.op, "ok")
        /\ inflight' = Drop(inflight, {r})
        /\ UNCHANGED <<players, events>>
        /\ LineupStepFrame
(***************************************************************************)
(* Initial states.                                                         *)
(***************************************************************************)
NoResponse == [op |-> None, code |-> None]

\* an empty database, Player table aside
InitTables ==
    /\ team_groups = {}
    /\ tmatches = <<>>
    /\ gmatches = <<>>
    /\ lineups = <<>>
    /\ events = <<>>
    /\ response = NoResponse
    /\ listed = {}
    /\ lastSaved = {}
    /\ statLog = [sum |-> <<>>, saves |-> <<>>]
    /\ served = 0
    /\ SeedWorld

\* a stored Player row, with one career goal from earlier matches
Player(team, main, parent) ==
    [team |-> team, is_main_player |-> main, is_active |-> TRUE,
     parent_email |-> parent, parent2_email |-> None,
     goals_scored |-> 1, assists |-> 0, yellow_cards |-> 0,
     red_cards |-> 0, minutes_played |-> 0]

Tick(limit) == served < limit /\ served' = served + 1

EmptyRoster == [r \in PlayerRow |-> 0]

\* the players of the specifications that keep primary keys: one main player
\* per team, player 1 a child of parent2
SeedPlayers == [p \in Teams |-> Player(p, TRUE, IF p = 1 THEN "parent2" ELSE None)]

\* no delta propagated yet
NoDeltas == [sum |-> [p \in DOMAIN SeedPlayers |-> 0], saves |-> <<>>]

InitSeeded ==
    /\ roster = EmptyRoster
    /\ players = SeedPlayers
    /\ team_groups = {}
    /\ tmatches = <<>>
    /\ gmatches = <<>>
    /\ lineups = <<>>
    /\ events = <<>>
    /\ response = NoResponse
    /\ listed = {}
    /\ lastSaved = {}
    /\ statLog = NoDeltas
    /\ served = 0
    /\ SeedWorld

(***************************************************************************)
(* Roster specification: the Player handlers, by the staff users, from a   *)
(* database in which team 1 already holds SeedMain active main players.    *)
(***************************************************************************)
SeedMain == 10
MaxRosterRequests == 4

InitRoster ==
    /\ InitTables
    /\ players = <<>>
    /\ roster = [r \in PlayerRow |-> IF r = MainRow(1) THEN SeedMain ELSE 0]

RosterUsers == {"staff1", "staff2"}

RosterCreate ==
    /\ Tick(MaxRosterRequests)
    /\ \E u \in RosterUsers, t \in Teams, bt \in Teams, m \in BOOLEAN, a \in BOOLEAN :
          PlayerCreate(u, t, bt, m, a)

RosterUpdate ==
    /\ Tick(MaxRosterRequests)
    /\ \E u \in RosterUsers, old \in PlayerRow, bt \in Opt(Teams),
          m \in Opt(BOOLEAN), a \in Opt(BOOLEAN) :
          PlayerUpdate(u, old, bt, m, a)

RosterSetAsMain ==
    /\ Tick(MaxRosterRequests)
    /\ \E u \in RosterUsers, old \in PlayerRow : set_as_main(u, old)

RosterRemoveAsMain ==
    /\ Tick(MaxRosterRequests)
    /\ \E u \in RosterUsers, old \in PlayerRow : remove_as_main(u, old)

RosterDestroy ==
    /\ Tick(MaxRosterRequests)
    /\ \E u \in RosterUsers, old \in PlayerRow : PlayerDestroy(u, old)

NextRoster ==
    \/ RosterCreate
    \/ RosterUpdate
    \/ RosterSetAsMain
    \/ RosterRemoveAsMain
    \/ RosterDestroy

SpecRoster == InitRoster /\ [][NextRoster]_vars

RosterCapHolds == \A t \in Teams : MainCount(t) <= MAX_MAIN_PLAYERS

RosterRejectionKeepsPlayers ==
    [][response'.code \in {"validation_error", "permission_denied"}
          => roster' = roster]_vars

\* C1: after any sequence of Player create, update, set_as_main,
\* remove_as_main (and delete) requests every team has at most 11 players
\* with is_main_player and is_active, and a request that is refused leaves
\* the Player table as it was.
RosterCap == []RosterCapHolds /\ RosterRejectionKeepsPlayers

\* C1 witness: a team holds 11 active main players and the last request, a
\* create or set_as_main for a 12th, was refused
RosterCapReached ==
    /\ \E t \in Teams : MainCount(t) = MAX_MAIN_PLAYERS
    /\ response.code = "validation_error"
    /\ response.op \in {"player_create", "set_as_main", "player_update"}
    /\ PlayerCount > MAX_MAIN_PLAYERS

(***************************************************************************)
(* Pairing specification: every endpoint that writes the teams or the      *)
(* group of a match, and the group membership endpoints.  Dates, venues,   *)
(* phases, scores and statuses stay at one value.                          *)
(***************************************************************************)
MaxPairingRequests == 3

PairingAdmins == {"admin1", "admin2"}
PairingStaff == {"staff1", "staff2"}

PairingAddTeam ==
    /\ Tick(MaxPairingRequests)
    /\ \E u \in PairingAdmins, g \in Groups, t \in Teams : add_team(u, g, t)

PairingRemoveTeam ==
    /\ Tick(MaxPairingRequests)
    /\ \E u \in PairingAdmins, g \in Groups, t \in Teams : remove_team(u, g, t)

PairingTournamentCreate ==
    /\ Tick(MaxPairingRequests)
    /\ \E u \in PairingAdmins \cup {Anon}, home \in Teams, away \in Teams, g \in Opt(Groups) :
          Tournament_create_match(u, 1, home, away, g, {}, 1, "stade")

PairingGroupCreate ==
    /\ Tick(MaxPairingRequests)
    /\ \E u \in PairingAdmins \cup {"staff1"}, g \in Groups, home \in Teams, away \in Teams :
          Group_create_match(u, g, home, away, {}, 1, "stade")

PairingTournamentUpdate ==
    /\ Tick(MaxPairingRequests)
    /\ \E u \in PairingAdmins \cup {"staff1"}, id \in MatchIds,
          body \in [home_team : Opt(Teams), away_team : Opt(Teams), group : Opt(Opt(Groups))] :
          TournamentMatchUpdate(u, id, body)

PairingTournamentDestroy ==
    /\ Tick(MaxPairingRequests)
    /\ \E u \in PairingAdmins, id \in MatchIds : TournamentMatchDestroy(u, id)

PairingCreateBodies ==
    [home_team : Opt(Teams), away_team : Opt(Teams),
     scheduled_date : {{1}}, venue_name : {{"stade"}},
     group : Opt(Opt(Groups))]

PairingGlobalCreate ==
    /\ Tick(MaxPairingRequests)
    /\ \E u \in PairingStaff \cup {"admin1"},
          body \in PairingCreateBodies : GlobalMatchCreate(u, body)

PairingGlobalUpdate ==
    /\ Tick(MaxPairingRequests)
    /\ \E u \in PairingStaff \cup {"admin1"}, id \in MatchIds,
          body \in [home_team : Opt(Teams), away_team : Opt(Teams), group : Opt(Opt(Groups))] :
          GlobalMatchUpdate(u, id, body)

PairingGlobalDestroy ==
    /\ Tick(MaxPairingRequests)
    /\ \E u \in PairingStaff, id \in MatchIds : GlobalMatchDestroy(u, id)

NextPairing ==
    \/ PairingAddTeam
    \/ PairingRemoveTeam
    \/ PairingTournamentCreate
    \/ PairingGroupCreate
    \/ PairingTournamentUpdate
    \/ PairingTournamentDestroy
    \/ PairingGlobalCreate
    \/ PairingGlobalUpdate
    \/ PairingGlobalDestroy

SpecPairing == InitSeeded /\ [][NextPairing]_vars

\* C2: for every tournament Match and every GlobalMatch, whichever create or
\* update endpoint wrote it, home_team and away_team are different teams.
NoSelfPlay ==
    /\ \A id \in DOMAIN tmatches : tmatches[id].home_team # tmatches[id].away_team
    /\ \A id \in DOMAIN gmatches : gmatches[id].home_team # gmatches[id].away_team

\* C3: every match that has a group has both of its teams as TeamGroup
\* members of that group.
GroupMatchTeamsAreMembers ==
    /\ \A id \in DOMAIN tmatches : \A g \in tmatches[id].group :
          /\ <<tmatches[id].home_team, g>> \in team_groups
          /\ <<tmatches[id].away_team, g>> \in team_groups
    /\ \A id \in DOMAIN gmatches : \A g \in gmatches[id].group :
          /\ <<gmatches[id].home_team, g>> \in team_groups
          /\ <<gmatches[id].away_team, g>> \in team_groups


\* C12: match creation is all-or-nothing: a create request that fails while
\* inserting an auto-populated lineup row leaves no Match, no GlobalMatch and
\* no MatchLineup row behind.
FailedCreateStoresNothing ==
    [][(response'.code = "server_error"
          /\ response'.op \in {"gmatch_create", "tournament_create_match", "group_create_match"})
        => /\ tmatches' = tmatches
           /\ gmatches' = gmatches
           /\ lineups' = lineups]_vars
(***************************************************************************)
(* Lifecycle specification: every endpoint that writes the status of a     *)
(* match, from a database holding tournament match 1 (team 1 v team 2, by  *)
(* admin1's tournament, mirrored) and the ad hoc match 2 created by staff1.*)
(***************************************************************************)
SeedTournamentMatch ==
    [tournament |-> 1, group |-> {}, phase |-> {}, home_team |-> 1, away_team |-> 2,
     match_date |-> 1, venue |-> "stade", home_score |-> 0, away_score |-> 0,
     status |-> "scheduled"]

SeedAdHocMatch ==
    NewGlobalMatch([home_team |-> {1}, away_team |-> {2}, scheduled_date |-> {1},
                    venue_name |-> {"stade"}], "staff1")

InitLifecycle ==
    /\ roster = EmptyRoster
    /\ players = SeedPlayers
    /\ team_groups = {}
    /\ tmatches = Put(<<>>, 1, SeedTournamentMatch)
    /\ gmatches = Put(sync_match_to_global(<<>>, 1, SeedTournamentMatch), 2, SeedAdHocMatch)
    /\ lineups = [k \in {<<m, t, t>> : m \in {1, 2}, t \in {1, 2}} |-> NewLineup]
    /\ events = <<>>
    /\ response = NoResponse
    /\ listed = {}
    /\ lastSaved = {}
    /\ statLog = NoDeltas
    /\ served = 0
    /\ SeedWorld

MaxLifecycleRequests == 4

LifecycleUsers == {"admin1", "staff1", "staff2", Anon}
SeededIds == {1, 2}

LifecycleUpdateScore ==
    /\ Tick(MaxLifecycleRequests)
    /\ \E u \in LifecycleUsers, id \in SeededIds, h \in Scores, st \in Opt(TStatuses) :
          update_score(u, id, h, 0, st)

LifecycleStartMatch ==
    /\ Tick(MaxLifecycleRequests)
    /\ \E u \in LifecycleUsers, id \in SeededIds : start_match(u, id)

LifecycleFinishMatch ==
    /\ Tick(MaxLifecycleRequests)
    /\ \E u \in LifecycleUsers, id \in SeededIds : finish_match(u, id)

LifecycleTournamentUpdate ==
    /\ Tick(MaxLifecycleRequests)
    /\ \E u \in LifecycleUsers, id \in SeededIds, body \in [status : Opt(TStatuses)] :
          TournamentMatchUpdate(u, id, body)

LifecycleGlobalUpdate ==
    /\ Tick(MaxLifecycleRequests)
    /\ \E u \in LifecycleUsers, id \in SeededIds, body \in [status : Opt(GStatuses)] :
          GlobalMatchUpdate(u, id, body)

LifecycleStart ==
    /\ Tick(MaxLifecycleRequests)
    /\ \E u \in LifecycleUsers, id \in SeededIds : StartMatchView(u, id)

LifecycleFinish ==
    /\ Tick(MaxLifecycleRequests)
    /\ \E u \in LifecycleUsers, id \in SeededIds : FinishMatchView(u, id)

LifecyclePostpone ==
    /\ Tick(MaxLifecycleRequests)
    /\ \E u \in LifecycleUsers, id \in SeededIds, d \in Opt({NumDates}) :
          PostponeMatchView(u, id, d)

LifecycleCancel ==
    /\ Tick(MaxLifecycleRequests)
    /\ \E u \in LifecycleUsers, id \in SeededIds : CancelMatchView(u, id)

LifecycleReschedule ==
    /\ Tick(MaxLifecycleRequests)
    /\ \E u \in LifecycleUsers, id \in SeededIds, d \in Opt({NumDates}) :
          RescheduleMatchView(u, id, d)

NextLifecycle ==
    \/ LifecycleUpdateScore
    \/ LifecycleStartMatch
    \/ LifecycleFinishMatch
    \/ LifecycleTournamentUpdate
    \/ LifecycleGlobalUpdate
    \/ LifecycleStart
    \/ LifecycleFinish
    \/ LifecyclePostpone
    \/ LifecycleCancel
    \/ LifecycleReschedule

SpecLifecycle == InitLifecycle /\ [][NextLifecycle]_vars

Terminal == {"finished", "cancelled"}

\* C4: once the status of a match is finished or cancelled, no later request
\* changes that status.
TerminalStatusesStay ==
    [][/\ \A id \in DOMAIN tmatches \cap DOMAIN tmatches' :
             tmatches[id].status \in Terminal
                => tmatches'[id].status = tmatches[id].status
       /\ \A id \in DOMAIN gmatches \cap DOMAIN gmatches' :
             gmatches[id].status \in Terminal
                => gmatches'[id].status = gmatches[id].status]_vars

(***************************************************************************)
(* Synchronisation specification: every endpoint that saves or deletes a   *)
(* tournament match, and the general endpoints that write its GlobalMatch  *)
(* directly, from a database holding tournament match 1 (team 1 v team 2   *)
(* in group 1, mirrored).  A request body carries at most one field.       *)
(***************************************************************************)
MaxSyncRequests == 2

SeedGroupMatch == [SeedTournamentMatch EXCEPT !.group = {1}]

InitSync ==
    /\ roster = EmptyRoster
    /\ players = SeedPlayers
    /\ team_groups = {<<1, 1>>, <<2, 1>>}
    /\ tmatches = Put(<<>>, 1, SeedGroupMatch)
    /\ gmatches = sync_match_to_global(<<>>, 1, SeedGroupMatch)
    /\ lineups = [k \in {<<1, t, t>> : t \in {1, 2}} |-> NewLineup]
    /\ events = <<>>
    /\ response = NoResponse
    /\ listed = {}
    /\ lastSaved = {}
    /\ statLog = NoDeltas
    /\ served = 0
    /\ SeedWorld

SyncTournamentBodies ==
    {NoBody}
    \cup OneField("group", Opt(Groups)) \cup OneField("phase", Opt(PhaseTypes))
    \cup OneField("home_team", {2}) \cup OneField("away_team", {1})
    \cup OneField("match_date", {NumDates}) \cup OneField("venue", {""})
    \cup OneField("home_score", {MaxScore}) \cup OneField("away_score", {MaxScore})
    \cup OneField("status", {"live", "postponed"})

SyncGlobalBodies ==
    OneField("tournament", {{}}) \cup OneField("phase", {{"final"}})
    \cup OneField("group", {{}}) \cup OneField("home_team", {2})
    \cup OneField("away_team", {1}) \cup OneField("scheduled_date", {NumDates})
    \cup OneField("venue_name", {"autre"}) \cup OneField("home_score", {MaxScore})
    \cup OneField("away_score", {MaxScore}) \cup OneField("status", {"half_time"})
    \cup OneField("match_type", {"friendly"}) \cup OneField("notes", {"memo"})

SyncTournamentCreate ==
    /\ Tick(MaxSyncRequests)
    /\ \E ph \in Opt(PhaseTypes) :
          Tournament_create_match("admin1", 1, 2, 1, {}, ph, NumDates, "")

SyncGroupCreate ==
    /\ Tick(MaxSyncRequests)
    /\ \E ph \in Opt({"group_stage"}) :
          Group_create_match("admin1", 1, 2, 1, ph, 1, "stade")

SyncTournamentUpdate ==
    /\ Tick(MaxSyncRequests)
    /\ \E id \in MatchIds, body \in SyncTournamentBodies :
          TournamentMatchUpdate("admin1", id, body)

SyncUpdateScore ==
    /\ Tick(MaxSyncRequests)
    /\ \E id \in MatchIds, h \in Scores, st \in Opt({"finished"}) :
          update_score("admin1", id, h, 0, st)

SyncStartMatch ==
    /\ Tick(MaxSyncRequests)
    /\ \E id \in MatchIds : start_match("admin1", id)

SyncFinishMatch ==
    /\ Tick(MaxSyncRequests)
    /\ \E id \in MatchIds : finish_match("admin1", id)

SyncTournamentDestroy ==
    /\ Tick(MaxSyncRequests)
    /\ \E id \in MatchIds : TournamentMatchDestroy("admin1", id)

SyncGlobalUpdate ==
    /\ Tick(MaxSyncRequests)
    /\ \E id \in MatchIds, body \in SyncGlobalBodies :
          GlobalMatchUpdate("staff1", id, body)

SyncGlobalStart ==
    /\ Tick(MaxSyncRequests)
    /\ \E id \in MatchIds : StartMatchView("staff1", id)

SyncGlobalCancel ==
    /\ Tick(MaxSyncRequests)
    /\ \E id \in MatchIds : CancelMatchView("staff1", id)

SyncGlobalDestroy ==
    /\ Tick(MaxSyncRequests)
    /\ \E id \in MatchIds : GlobalMatchDestroy("staff1", id)

NextSync ==
    \/ SyncTournamentCreate
    \/ SyncGroupCreate
    \/ SyncTournamentUpdate
    \/ SyncUpdateScore
    \/ SyncStartMatch
    \/ SyncFinishMatch
    \/ SyncTournamentDestroy
    \/ SyncGlobalUpdate
    \/ SyncGlobalStart
    \/ SyncGlobalCancel
    \/ SyncGlobalDestroy

SpecSync == InitSync /\ [][NextSync]_vars

\* the GlobalMatch row g carries the columns of the tournament match row m
MirrorOf(g, m) ==
    /\ g.tournament = {m.tournament}
    /\ g.phase = m.phase
    /\ g.group = m.group
    /\ g.home_team = m.home_team
    /\ g.away_team = m.away_team
    /\ g.scheduled_date = m.match_date
    /\ g.venue_name = m.venue
    /\ g.home_score = m.home_score
    /\ g.away_score = m.away_score
    /\ g.status = m.status
    /\ g.match_type = IF m.phase \in {{}, {"group_stage"}} THEN "group_stage"
                      ELSE IF m.phase = {"round_16"} THEN "knockout"
                      ELSE Get(m.phase, None)

\* C6: a save that re-runs the synchronizer on a tournament match whose
\* fields have not changed since they were mirrored leaves the GlobalMatch
\* table unchanged.
SyncIdempotent ==
    [][\A s \in lastSaved' :
          (/\ s.id \in DOMAIN tmatches
           /\ s.id \in DOMAIN gmatches
           /\ tmatches'[s.id] = tmatches[s.id]
           /\ MirrorOf(gmatches[s.id], tmatches[s.id]))
          => gmatches' = gmatches]_vars

\* C6 witness: the last request saved a stored tournament match, with a
\* score and a phase, without changing a field, and its GlobalMatch, which
\* was its mirror, is what it was
ResavedUnchanged ==
    \E s \in lastSaved :
        /\ s.before = {tmatches[s.id]}
        /\ s.mirror = {gmatches[s.id]}
        /\ MirrorOf(gmatches[s.id], tmatches[s.id])
        /\ tmatches[s.id].home_score > 0

\* C7: after every save of a tournament match the GlobalMatch with the same
\* id mirrors tournament, phase, group, home_team, away_team, match_date as
\* scheduled_date, venue as venue_name, home_score, away_score and status,
\* and carries the match_type derived from the phase type.
SavedMatchMirrored ==
    \A s \in lastSaved :
        /\ s.id \in DOMAIN tmatches
        /\ s.id \in DOMAIN gmatches
        /\ MirrorOf(gmatches[s.id], tmatches[s.id])

\* C7 witness: a save rewrote a GlobalMatch that had diverged from its
\* tournament match, for a round-of-16 match
MirrorRestored ==
    \E s \in lastSaved :
        /\ s.mirror # {}
        /\ s.before # {}
        /\ ~MirrorOf(Get(s.mirror, None), Get(s.before, None))
        /\ tmatches[s.id].phase = {"round_16"}
        /\ gmatches[s.id].match_type = "knockout"


\* the rows of a table f that a step leaves as they were, all but those of keys
OnlyLost(old, new, keys) ==
    /\ DOMAIN new = DOMAIN old \ keys
    /\ \A k \in DOMAIN new : new[k] = old[k]

DeletedTournamentMatch(id) ==
    /\ id \notin DOMAIN gmatches'
    /\ OnlyLost(tmatches, tmatches', {id})
    /\ OnlyLost(gmatches, gmatches', {id})
    /\ OnlyLost(lineups, lineups', {k \in DOMAIN lineups : k[1] = id})
    /\ events' = SelectSeq(events, LAMBDA e : e.match # id)
    /\ UNCHANGED <<team_groups, players, roster>>
    /\ id \notin DOMAIN gmatches =>
          /\ gmatches' = gmatches
          /\ lineups' = lineups
          /\ events' = events

\* C13: a successful delete of a tournament Match removes the GlobalMatch of
\* the same id with its lineups and events and nothing else; when there is no
\* GlobalMatch of that id the delete still succeeds and changes no other table.
TournamentDeleteCascades ==
    [][response'.op = "tmatch_destroy"
        => \/ response'.code = "ok" /\ \E id \in DOMAIN tmatches : DeletedTournamentMatch(id)
           \/ response'.code \in {"permission_denied", "not_found"}
                 /\ UNCHANGED <<tmatches, gmatches, lineups, events>>]_vars

\* C13 witness: the only request so far deleted tournament match 1, and the
\* GlobalMatch and the two lineup rows seeded with it are gone
DeleteRemovedMirror ==
    /\ response = [op |-> "tmatch_destroy", code |-> "ok"]
    /\ served = 1
    /\ gmatches = <<>>
    /\ lineups = <<>>

\* C14: a start request of the organizer is accepted only for a scheduled
\* tournament match, which it sets to live (mirrored); on a match in any other
\* status it is answered with a validation error, never a permission error,
\* and the tournament Match and GlobalMatch tables stay as they were.
StartOnlyFromScheduled ==
    [][response'.op = "start_match"
        => \/ /\ response'.code = "ok"
              /\ \E id \in DOMAIN tmatches :
                    /\ tmatches[id].status = "scheduled"
                    /\ tmatches' = [tmatches EXCEPT ![id].status = "live"]
                    /\ id \in DOMAIN gmatches'
                    /\ gmatches'[id].status = "live"
           \/ /\ response'.code = "validation_error"
              /\ \E id \in DOMAIN tmatches : tmatches[id].status # "scheduled"
              /\ UNCHANGED <<tmatches, gmatches>>
           \/ /\ response'.code = "not_found"
              /\ DOMAIN tmatches # MatchIds
              /\ UNCHANGED <<tmatches, gmatches>>]_vars

\* C14 witness: the second of two requests was a start of match 1, already
\* live, and was answered with a validation error
SecondStartRejected ==
    /\ response = [op |-> "start_match", code |-> "validation_error"]
    /\ served = 2
    /\ 1 \in DOMAIN tmatches /\ tmatches[1].status = "live"
    /\ 1 \in DOMAIN gmatches /\ gmatches[1].status = "live"
    /\ DOMAIN tmatches = {1}

\* C20: in every reachable state every stored tournament Match has a
\* GlobalMatch of the same id (one at most, the id being the primary key).
EveryTournamentMatchHasGlobal ==
    \A id \in DOMAIN tmatches : id \in DOMAIN gmatches

\* C26: after an accepted start request, on the general path or on the
\* tournament path, the started match is live and has an actual_start_time.
StartRecordsStartTime ==
    [][(response'.code = "ok" /\ response'.op \in {"start", "start_match"})
        => \A id \in DOMAIN gmatches :
              (id \in DOMAIN gmatches' /\ gmatches'[id] # gmatches[id])
                  => /\ gmatches'[id].status = "live"
                     /\ gmatches'[id].actual_start_time]_vars

GlobalOnlyFields == {"actual_start_time", "actual_end_time", "notes", "created_by"}

\* C27: a tournament match save that finds its GlobalMatch stored leaves the
\* columns the synchronizer does not mirror (actual start and end time,
\* notes, created_by) as they were, and changes no lineup and no event.
SyncKeepsUnmirroredFields ==
    /\ [](\A s \in lastSaved : \A g \in s.mirror :
             \A f \in GlobalOnlyFields : gmatches[s.id][f] = g[f])
    /\ [][(\E s \in lastSaved' : s.mirror # {})
            => lineups' = lineups /\ events' = events]_vars

\* C27 witness: a save rewrote a GlobalMatch that carried a note, and the note
\* is still there
NoteSurvivedSave ==
    \E s \in lastSaved :
        /\ s.mirror # {}
        /\ s.before # {tmatches[s.id]}
        /\ gmatches[s.id].notes = "memo"
        /\ <<s.id, 1, 1>> \in DOMAIN lineups
(***************************************************************************)
(* Stats specification: the event and lineup endpoints, from a database    *)
(* holding the ad hoc match 1 (team 1 v team 2, created by staff1) with    *)
(* the lineup rows its creation added.                                     *)
(***************************************************************************)
MaxStatsRequests == 3
MaxStat == 3

InitStats ==
    /\ roster = EmptyRoster
    /\ players = SeedPlayers
    /\ team_groups = {}
    /\ tmatches = <<>>
    /\ gmatches = Put(<<>>, 1, SeedAdHocMatch)
    /\ lineups = [k \in {<<1, t, t>> : t \in {1, 2}} |-> NewLineup]
    /\ events = <<>>
    /\ response = NoResponse
    /\ listed = {}
    /\ lastSaved = {}
    /\ statLog = NoDeltas
    /\ served = 0
    /\ SeedWorld

\* the lineup rows the requests name: the two seeded ones
StatsKeys == {<<1, 1, 1>>, <<1, 2, 2>>}

StatsBodies ==
    OneField("goals_scored", {0, 1, MaxStat}) \cup OneField("assists", {1})
    \cup OneField("yellow_cards", {1}) \cup OneField("red_cards", {1})
    \cup OneField("minutes_played", {1})

StatsItems ==
    {[team |-> k[2], player |-> k[3], data |-> d] :
        k \in StatsKeys, d \in OneField("goals_scored", {0, MaxStat - 1})}

StatsEventCreate ==
    /\ Tick(MaxStatsRequests)
    /\ \E u \in {"staff1", "admin1"}, k \in StatsKeys,
          ty \in {"goal", "yellow_card", "red_card", "own_goal"} :
          MatchEventCreate(u, k[1], k[2], k[3], ty)

StatsEventsPost ==
    /\ Tick(MaxStatsRequests)
    /\ \E u \in {"staff1", "parent1"}, team \in Opt({1}) :
          MatchEventsView_post(u, 1, team, 1, "goal")

StatsLineupCreate ==
    /\ Tick(MaxStatsRequests)
    /\ \E u \in {"staff1", "admin1"}, body \in OneField("goals_scored", {0, MaxStat}) :
          MatchLineupCreate(u, <<1, 1, 1>>, body)

StatsLineupsPost ==
    /\ Tick(MaxStatsRequests)
    /\ \E u \in {"staff1", "staff2"}, body \in OneField("goals_scored", {1}) :
          MatchLineupsView_post(u, <<1, 1, 1>>, body)

StatsLineupUpdate ==
    /\ Tick(MaxStatsRequests)
    /\ \E u \in {"staff1", "admin1"}, k \in StatsKeys, body \in StatsBodies :
          MatchLineupUpdate(u, k, body)

StatsLineupPatch ==
    /\ Tick(MaxStatsRequests)
    /\ \E u \in {"staff1", Anon}, body \in OneField("goals_scored", {0, MaxStat}) :
          MatchLineupDetailView_patch(u, <<1, 1, 1>>, body)

StatsLineupDelete ==
    /\ Tick(MaxStatsRequests)
    /\ \E u \in {"staff1", "staff2"} : MatchLineupDetailView_delete(u, <<1, 1, 1>>)

StatsBulkUpdate ==
    /\ Tick(MaxStatsRequests)
    /\ \E u \in {"staff1", "admin1"}, a \in StatsItems, b \in StatsItems :
          \E items \in {<<a>>, <<a, b>>} : UpdatePlayerStatsView(u, 1, items)

StatsSetLineup ==
    /\ Tick(MaxStatsRequests)
    /\ \E u \in {"staff1", "staff2"}, team \in Opt({1}) : SetMatchLineupView_post(u, 1, team)

NextStats ==
    \/ StatsEventCreate
    \/ StatsEventsPost
    \/ StatsLineupCreate
    \/ StatsLineupsPost
    \/ StatsLineupUpdate
    \/ StatsLineupPatch
    \/ StatsLineupDelete
    \/ StatsBulkUpdate
    \/ StatsSetLineup

SpecStats == InitStats /\ [][NextStats]_vars

\* C8: after any sequence of MatchLineup stat updates the career goals_scored
\* of every player is its initial value plus the sum of the applied
\* (new - old) deltas, floored at 0: a value that does not depend on the order
\* of the edits.
CareerIsFlooredSumOfDeltas ==
    \A p \in DOMAIN players :
        players[p].goals_scored
            = Max(0, SeedPlayers[p].goals_scored + statLog.sum[p])

\* C9: a save of a stored MatchLineup row moves each of the five career
\* counters of its player by the new lineup value minus the stored one,
\* floored at zero, and leaves the other columns of the player alone.
LineupSaveMovesCareerByDelta ==
    /\ \A i \in DOMAIN statLog.saves :
          LET s == statLog.saves[i]
          IN  \A f \in DOMAIN s.before :
                s.after[f] = IF f \in StatFields
                             THEN Max(0, s.before[f] + s.new[f] - s.old[f])
                             ELSE s.before[f]
    /\ \A p \in DOMAIN players :
          \/ \E i \in DOMAIN statLog.saves :
                /\ statLog.saves[i].player = p
                /\ \A j \in DOMAIN statLog.saves : j > i => statLog.saves[j].player # p
                /\ players[p] = statLog.saves[i].after
          \/ \A i \in DOMAIN statLog.saves : statLog.saves[i].player # p

\* C9 witness: after a goal event put goals_scored of a lineup row at 1, an
\* edit of the row from 1 to 3 raised the career total by 2, to a value that
\* is not the lineup value
GoalThenEditRaisesByTwo ==
    /\ response = [op |-> "lineup_update", code |-> "ok"]
    /\ \E e \in DOMAIN events : events[e].event_type = "goal"
    /\ Len(statLog.saves) = 1
    /\ statLog.saves[1].old.goals_scored = 1
    /\ statLog.saves[1].new.goals_scored = 3
    /\ statLog.saves[1].after.goals_scored = statLog.saves[1].before.goals_scored + 2
    /\ statLog.saves[1].after.goals_scored # 3


\* the lineup row after one more event of a type is counted on it
CountedOn(row, event_type) ==
    CASE event_type \in {"goal", "penalty_goal"} -> [row EXCEPT !.goals_scored = @ + 1]
      [] event_type = "yellow_card"              -> [row EXCEPT !.yellow_cards = @ + 1]
      [] event_type = "red_card"                 -> [row EXCEPT !.red_cards = @ + 1]
      [] OTHER                                   -> row

\* C25: whichever endpoint stores a new MatchEvent, the MatchLineup row of the
\* same match, team and player has its counter of the event's type raised by
\* exactly 1, and when there is no such row no lineup row changes.
EventCountsOnLineup ==
    [][Len(events') = Len(events) + 1
        => LET e   == events'[Len(events')]
               key == <<e.match, e.team, e.player>>
           IN  IF key \in DOMAIN lineups
               THEN lineups' = [lineups EXCEPT ![key] = CountedOn(@, e.event_type)]
               ELSE lineups' = lineups]_vars

\* C24: a set-lineup request for (match, team) is all-or-nothing: a request
\* that does not succeed leaves every MatchLineup row as it was before.
FailedSetLineupKeepsRows ==
    [][(response'.op = "set_lineup" /\ response'.code # "ok") => lineups' = lineups]_vars

(***************************************************************************)
(* Career specification: the requests of the statistics specification,     *)
(* from a database where every career counter is zero and no lineup row    *)
(* is stored.                                                              *)
(***************************************************************************)
InitCareer ==
    /\ roster = EmptyRoster
    /\ players = [p \in DOMAIN SeedPlayers |-> [SeedPlayers[p] EXCEPT !.goals_scored = 0]]
    /\ team_groups = {}
    /\ tmatches = <<>>
    /\ gmatches = Put(<<>>, 1, SeedAdHocMatch)
    /\ lineups = <<>>
    /\ events = <<>>
    /\ response = NoResponse
    /\ listed = {}
    /\ lastSaved = {}
    /\ statLog = NoDeltas
    /\ served = 0
    /\ SeedWorld

SpecCareer == InitCareer /\ [][NextStats]_vars

\* C29: from zero career counters and no lineup rows, after any sequence of
\* lineup and event requests each career counter stored on a Player equals
\* the sum of that counter over the player's MatchLineup rows.
CareerEqualsLineupSum ==
    \A p \in DOMAIN players : \A f \in StatFields :
        LET rows == {k \in DOMAIN lineups : k[3] = p}
        IN  players[p][f] = SumOver([k \in rows |-> lineups[k][f]], rows)
(***************************************************************************)
(* Standings specification: the organizer fills two groups of tournament 1 *)
(* with matches and results, and the standings are read, from a database   *)
(* holding match 1 (team 1 v team 2, group 1, finished 1-0).               *)
(***************************************************************************)
MaxStandingsRequests == 3

SeedFinishedMatch == [SeedGroupMatch EXCEPT !.status = "finished", !.home_score = 1]

InitStandings ==
    /\ roster = EmptyRoster
    /\ players = SeedPlayers
    /\ team_groups = {<<1, 1>>, <<2, 1>>, <<1, 2>>}
    /\ tmatches = Put(<<>>, 1, SeedFinishedMatch)
    /\ gmatches = sync_match_to_global(<<>>, 1, SeedFinishedMatch)
    /\ lineups = [k \in {<<1, t, t>> : t \in {1, 2}} |-> NewLineup]
    /\ events = <<>>
    /\ response = NoResponse
    /\ listed = {}
    /\ lastSaved = {}
    /\ statLog = NoDeltas
    /\ served = 0
    /\ SeedWorld

StandingsBodies ==
    OneField("group", Opt(Groups)) \cup OneField("status", {"finished", "live"})
    \cup OneField("home_team", Teams) \cup OneField("away_score", Scores)

StandingsAddTeam ==
    /\ Tick(MaxStandingsRequests)
    /\ \E g \in Groups : add_team("admin1", g, 2)

StandingsRemoveTeam ==
    /\ Tick(MaxStandingsRequests)
    /\ \E g \in Groups : remove_team("admin1", g, 1)

StandingsTournamentCreate ==
    /\ Tick(MaxStandingsRequests)
    /\ \E g \in Opt(Groups) :
          Tournament_create_match("admin1", 1, 2, 1, g, {}, 1, "")

StandingsUpdateScore ==
    /\ Tick(MaxStandingsRequests)
    /\ \E id \in MatchIds, h \in Scores, a \in Scores, st \in Opt({"finished"}) :
          update_score("admin1", id, h, a, st)

StandingsTournamentUpdate ==
    /\ Tick(MaxStandingsRequests)
    /\ \E id \in MatchIds, body \in StandingsBodies :
          TournamentMatchUpdate("admin1", id, body)

StandingsFinishMatch ==
    /\ Tick(MaxStandingsRequests)
    /\ \E id \in MatchIds : finish_match("admin1", id)

StandingsOfGroup ==
    /\ Tick(MaxStandingsRequests)
    /\ \E u \in {"admin1", "staff1"}, g \in Groups : standings(u, g)

StandingsOfTournament ==
    /\ Tick(MaxStandingsRequests)
    /\ \E u \in {"admin1", "admin2", "staff1", "parent1", "viewer1", Anon},
          t \in Tournaments :
          TournamentStandingsView_get(u, t)

NextStandings ==
    \/ StandingsAddTeam
    \/ StandingsRemoveTeam
    \/ StandingsTournamentCreate
    \/ StandingsUpdateScore
    \/ StandingsTournamentUpdate
    \/ StandingsFinishMatch
    \/ StandingsOfGroup
    \/ StandingsOfTournament

SpecStandings == InitStandings /\ [][NextStandings]_vars

\* the sides a team played in the finished matches of a group
FinishedSides(team, g) ==
    {c \in (DOMAIN tmatches) \X {"home", "away"} :
        /\ tmatches[c[1]].group = {g}
        /\ tmatches[c[1]].status = "finished"
        /\ team = IF c[2] = "home" THEN tmatches[c[1]].home_team
                  ELSE tmatches[c[1]].away_team}

GoalsFor(c) ==
    IF c[2] = "home" THEN tmatches[c[1]].home_score ELSE tmatches[c[1]].away_score

GoalsAgainst(c) ==
    IF c[2] = "home" THEN tmatches[c[1]].away_score ELSE tmatches[c[1]].home_score

StandingsAnswered ==
    /\ response.op \in {"standings", "tournament_standings"}
    /\ response.code = "ok"

\* C10: a standings answer holds, for each group it covers, exactly one entry
\* per TeamGroup of the group, whose wins, draws, losses, goals scored and
\* conceded are counted over the finished matches of that group the team
\* played home or away, with played = wins + draws + losses, goal_difference
\* = goals_scored - goals_conceded and points = wins, draws and losses
\* weighted by the tournament's points_per_win, _draw and _loss; no other
\* match contributes.
StandingsCountFinishedGroupMatches ==
    StandingsAnswered =>
        \A e \in listed :
            LET g == e.group_id
                t == group_tournament(g)
                rows == e.standings
            IN  /\ Len(rows) = Cardinality({tg \in team_groups : tg[2] = g})
                /\ \A tg \in team_groups :
                      tg[2] = g => \E i \in DOMAIN rows : rows[i].team = tg[1]
                /\ \A i \in DOMAIN rows :
                      LET r == rows[i]
                          sides == FinishedSides(r.team, g)
                      IN  /\ r.wins = Cardinality(
                                {c \in sides : GoalsFor(c) > GoalsAgainst(c)})
                          /\ r.draws = Cardinality(
                                {c \in sides : GoalsFor(c) = GoalsAgainst(c)})
                          /\ r.losses = Cardinality(
                                {c \in sides : GoalsFor(c) < GoalsAgainst(c)})
                          /\ r.goals_scored
                                = SumOver([c \in sides |-> GoalsFor(c)], sides)
                          /\ r.goals_conceded
                                = SumOver([c \in sides |-> GoalsAgainst(c)], sides)
                          /\ r.played = r.wins + r.draws + r.losses
                          /\ r.played = Cardinality(sides)
                          /\ r.goal_difference = r.goals_scored - r.goals_conceded
                          /\ r.points = r.wins * points_per_win(t)
                                        + r.draws * points_per_draw(t)
                                        + r.losses * points_per_loss(t)

\* C10 witness: the standings of a group were returned with a winner and a
\* loser, while a match with goals that is not finished or is outside the
\* group is stored
StandingsSkipOtherMatches ==
    /\ StandingsAnswered
    /\ \E e \in listed :
          /\ \E i \in DOMAIN e.standings :
                e.standings[i].wins = 1 /\ e.standings[i].played = 1
          /\ \E i \in DOMAIN e.standings :
                e.standings[i].losses = 1 /\ e.standings[i].points = 1
          /\ \E m \in DOMAIN tmatches :
                /\ tmatches[m].group # {e.group_id} \/ tmatches[m].status # "finished"
                /\ tmatches[m].home_score + tmatches[m].away_score > 0
                /\ tmatches[m].home_team \in
                      {e.standings[i].team : i \in DOMAIN e.standings}

StandingsInOrder ==
    StandingsAnswered =>
        \A e \in listed :
            LET rows == e.standings
            IN  \A i \in DOMAIN rows :
                  /\ rows[i].position = i
                  /\ \A j \in DOMAIN rows :
                        i < j =>
                          \/ rows[i].points > rows[j].points
                          \/ /\ rows[i].points = rows[j].points
                             /\ rows[i].goal_difference > rows[j].goal_difference
                          \/ /\ rows[i].points = rows[j].points
                             /\ rows[i].goal_difference = rows[j].goal_difference
                             /\ rows[i].goals_scored > rows[j].goals_scored
                          \/ /\ rows[i].points = rows[j].points
                             /\ rows[i].goal_difference = rows[j].goal_difference
                             /\ rows[i].goals_scored = rows[j].goals_scored
                             /\ rows[i].team < rows[j].team

StandingsRepeat ==
    /\ StandingsAnswered
    /\ StandingsAnswered'
    /\ {e.group_id : e \in listed} = {e.group_id : e \in listed'}
    /\ tmatches' = tmatches
    /\ team_groups' = team_groups

StandingsBalanced ==
    StandingsAnswered =>
        \A e \in listed :
            LET rows == e.standings
                I    == DOMAIN rows
                finished == {m \in DOMAIN tmatches :
                                /\ tmatches[m].group = {e.group_id}
                                /\ tmatches[m].status = "finished"}
            IN  /\ SumOver([i \in I |-> rows[i].wins], I)
                      = SumOver([i \in I |-> rows[i].losses], I)
                /\ SumOver([i \in I |-> rows[i].goals_scored], I)
                      = SumOver([i \in I |-> rows[i].goals_conceded], I)
                /\ SumOver([i \in I |-> rows[i].played], I) = 2 * Cardinality(finished)

(***************************************************************************)
(* Visibility specification: every user lists every family, while events   *)
(* are recorded, group membership changes and ad hoc matches are created,  *)
(* from a database holding tournament match 1 (admin1's tournament, team 1 *)
(* v team 2, group 1, mirrored) with one event, and the ad hoc match 2     *)
(* created by staff1.                                                      *)
(***************************************************************************)
MaxVisibilityRequests == 2

InitVisibility ==
    /\ roster = EmptyRoster
    /\ players = SeedPlayers
    /\ team_groups = {<<1, 1>>, <<2, 1>>}
    /\ tmatches = Put(<<>>, 1, SeedGroupMatch)
    /\ gmatches = Put(sync_match_to_global(<<>>, 1, SeedGroupMatch), 2, SeedAdHocMatch)
    /\ lineups = [k \in {<<m, t, t>> : m \in {1, 2}, t \in {1, 2}} |-> NewLineup]
    /\ events = <<NewEvent("staff1", 1, 1, 1, "goal")>>
    /\ response = NoResponse
    /\ listed = {}
    /\ lastSaved = {}
    /\ statLog = NoDeltas
    /\ served = 0
    /\ SeedWorld

VisibilityEventCreate ==
    /\ Tick(MaxVisibilityRequests)
    /\ \E u \in {"staff1", "staff2"}, match \in SeededIds :
          MatchEventCreate(u, match, 2, 2, "yellow_card")

VisibilityAddTeam ==
    /\ Tick(MaxVisibilityRequests)
    /\ \E u \in {"admin1", "admin2"}, g \in Groups, team \in Teams : add_team(u, g, team)

VisibilityRemoveTeam ==
    /\ Tick(MaxVisibilityRequests)
    /\ \E g \in Groups, team \in Teams : remove_team("admin1", g, team)

VisibilityTournamentDestroy ==
    /\ Tick(MaxVisibilityRequests)
    /\ \E u \in {"admin1", "admin2"} : TournamentMatchDestroy(u, 1)

VisibilityGlobalDestroy ==
    /\ Tick(MaxVisibilityRequests)
    /\ \E u \in {"staff1", "admin2"} : GlobalMatchDestroy(u, 2)

VisibilityGlobalMatchList ==
    /\ Tick(MaxVisibilityRequests)
    /\ \E u \in Users \cup {Anon} : GlobalMatchList(u)

VisibilityTournamentMatchList ==
    /\ Tick(MaxVisibilityRequests)
    /\ \E u \in Users \cup {Anon} : TournamentMatchList(u)

VisibilityTournamentList ==
    /\ Tick(MaxVisibilityRequests)
    /\ \E u \in Users \cup {Anon} : TournamentList(u)

VisibilityMyTournaments ==
    /\ Tick(MaxVisibilityRequests)
    /\ \E u \in Users \cup {Anon} : my_tournaments(u)

VisibilityTournamentGroups ==
    /\ Tick(MaxVisibilityRequests)
    /\ \E u \in Users \cup {Anon}, t \in Tournaments : Tournament_groups(u, t)

VisibilityTournamentMatches ==
    /\ Tick(MaxVisibilityRequests)
    /\ \E u \in Users \cup {Anon}, t \in Tournaments : Tournament_matches(u, t)

VisibilityGroupList ==
    /\ Tick(MaxVisibilityRequests)
    /\ \E u \in Users \cup {Anon} : GroupList(u)

VisibilityGroupMatches ==
    /\ Tick(MaxVisibilityRequests)
    /\ \E u \in Users \cup {Anon}, g \in Groups : Group_matches(u, g)

VisibilityEventList ==
    /\ Tick(MaxVisibilityRequests)
    /\ \E u \in Users \cup {Anon} : MatchEventList(u)

VisibilityMatchEvents ==
    /\ Tick(MaxVisibilityRequests)
    /\ \E u \in Users \cup {Anon}, match \in SeededIds : MatchEventsView_get(u, match)

VisibilityLineupList ==
    /\ Tick(MaxVisibilityRequests)
    /\ \E u \in Users \cup {Anon} : MatchLineupList(u)

VisibilityMatchLineups ==
    /\ Tick(MaxVisibilityRequests)
    /\ \E u \in Users \cup {Anon}, match \in SeededIds : MatchLineupsView_get(u, match)

NextVisibility ==
    \/ VisibilityEventCreate
    \/ VisibilityAddTeam
    \/ VisibilityRemoveTeam
    \/ VisibilityTournamentDestroy
    \/ VisibilityGlobalDestroy
    \/ VisibilityGlobalMatchList
    \/ VisibilityTournamentMatchList
    \/ VisibilityTournamentList
    \/ VisibilityMyTournaments
    \/ VisibilityTournamentGroups
    \/ VisibilityTournamentMatches
    \/ VisibilityGroupList
    \/ VisibilityGroupMatches
    \/ VisibilityEventList
    \/ VisibilityMatchEvents
    \/ VisibilityLineupList
    \/ VisibilityMatchLineups

SpecVisibility == InitVisibility /\ [][NextVisibility]_vars

ListingOps ==
    {"global_match_list", "tournament_match_list", "tournament_list",
     "my_tournaments", "tournament_groups", "tournament_matches", "group_list",
     "group_matches", "event_list", "match_events", "lineup_list", "match_lineups"}

\* the teams tied to a user by role: of a club the user owns, coached by the
\* user, followed by the user, or of a child of the user
RoleTeams(u) ==
    {t \in Teams : club_owner(team_club(t)) = u \/ team_coach(t) = u}
    \cup (IF user_type(u) = "parent" THEN ParentTeamsBoth(u) ELSE {})

\* the role predicate on a match with these sides, creator and tournament
MatchInRole(u, home, away, creators, tournament) ==
    CASE ~is_authenticated(u)    -> FALSE
      [] user_type(u) = "viewer" -> TRUE
      [] user_type(u) = "admin"  ->
            u \in creators \/ \E t \in tournament : organizer(t) = u
      [] OTHER                   -> home \in RoleTeams(u) \/ away \in RoleTeams(u)

\* the role predicate on a tournament
TournamentInRole(u, t) ==
    CASE ~is_authenticated(u)    -> FALSE
      [] user_type(u) = "viewer" -> TRUE
      [] user_type(u) = "admin"  -> organizer(t) = u
      [] OTHER                   -> \E team \in RoleTeams(u) : InTournament(team, t)

\* the role predicate on a returned row, by family
InRole(r) ==
    CASE r.family = "tournament" -> TournamentInRole(r.user, r.tournament)
      [] r.family = "group"      -> TournamentInRole(r.user, group_tournament(r.group))
      [] r.family = "tournament_match" ->
            MatchInRole(r.user, tmatches[r.match].home_team, tmatches[r.match].away_team,
                        {}, {tmatches[r.match].tournament})
      [] OTHER ->
            MatchInRole(r.user, gmatches[r.match].home_team, gmatches[r.match].away_team,
                        {gmatches[r.match].created_by}, gmatches[r.match].tournament)

\* C5: every row returned by a list or nested-list endpoint satisfies the
\* role predicate of the user it is returned to (admin: created or organized
\* by the user; staff, coach, parent: a side's team is tied to the user;
\* viewer: any row; unauthenticated: none).
ListedRowsAreInRole ==
    response.op \in ListingOps => \A r \in listed : InRole(r)

(***************************************************************************)
(* Access specification: users of every role send the requests that write  *)
(* a match, its lineups, its events or a player's statistics, to a         *)
(* database holding tournament match 1 (mirrored, no creator) and, in one   *)
(* of the two initial states, the ad hoc match 2 created by staff1.        *)
(***************************************************************************)
MaxAccessRequests == 2

AccessUsers == {"admin1", "admin2", "staff1", "staff2", "parent1", "viewer1"}

InitAccess ==
    /\ roster = EmptyRoster
    /\ players = SeedPlayers
    /\ team_groups = {}
    /\ tmatches = Put(<<>>, 1, SeedTournamentMatch)
    /\ \E adhoc \in BOOLEAN :
          /\ gmatches = IF adhoc
                        THEN Put(sync_match_to_global(<<>>, 1, SeedTournamentMatch), 2, SeedAdHocMatch)
                        ELSE sync_match_to_global(<<>>, 1, SeedTournamentMatch)
          /\ lineups = [k \in {<<m, t, t>> : m \in (IF adhoc THEN {1, 2} ELSE {1}), t \in {1, 2}}
                          |-> NewLineup]
    /\ events = <<>>
    /\ response = NoResponse
    /\ listed = {}
    /\ lastSaved = {}
    /\ statLog = NoDeltas
    /\ served = 0
    /\ SeedWorld

AccessCreateBodies ==
    [home_team : Opt(Teams), away_team : {{2}},
     scheduled_date : {{1}}, venue_name : {{"stade"}}]

AccessGlobalBodies == OneField("venue_name", {"autre"}) \cup OneField("home_score", {MaxScore})

AccessTournamentBodies == OneField("venue", {""}) \cup OneField("home_score", {MaxScore})

AccessLineupBodies == OneField("goals_scored", {1})

\* the requests of user u, one disjunct per endpoint
GeneralCreateBy(u) == \E body \in AccessCreateBodies : GlobalMatchCreate(u, body)
GeneralUpdateBy(u, id) == \E body \in AccessGlobalBodies : GlobalMatchUpdate(u, id, body)
GeneralManageBy(u, id) ==
    \/ StartMatchView(u, id)
    \/ FinishMatchView(u, id)
    \/ \E d \in Opt({NumDates}) : PostponeMatchView(u, id, d)
    \/ CancelMatchView(u, id)
    \/ \E d \in Opt({NumDates}) : RescheduleMatchView(u, id, d)
TournamentWriteBy(u, id) ==
    \/ \E body \in AccessTournamentBodies : TournamentMatchUpdate(u, id, body)
    \/ TournamentMatchDestroy(u, id)
    \/ update_score(u, id, MaxScore, 0, {})
    \/ start_match(u, id)
    \/ finish_match(u, id)
SheetWriteBy(u, id) ==
    \/ \E ty \in {"goal"} : MatchEventCreate(u, id, 1, 1, ty)
    \/ \E team \in Opt({1}) : MatchEventsView_post(u, id, team, 1, "goal")
    \/ \E body \in AccessLineupBodies : MatchLineupCreate(u, <<id, 1, 1>>, body)
    \/ \E body \in AccessLineupBodies : MatchLineupsView_post(u, <<id, 1, 1>>, body)
    \/ \E body \in AccessLineupBodies : MatchLineupUpdate(u, <<id, 1, 1>>, body)
    \/ \E body \in AccessLineupBodies : MatchLineupDetailView_patch(u, <<id, 1, 1>>, body)
    \/ MatchLineupDetailView_delete(u, <<id, 1, 1>>)
    \/ UpdatePlayerStatsView(u, id, <<[team |-> 1, player |-> 1, data |-> [goals_scored |-> {1}]]>>)

AccessGeneralCreate ==
    /\ Tick(MaxAccessRequests)
    /\ \E u \in AccessUsers : GeneralCreateBy(u)

AccessGeneralUpdate ==
    /\ Tick(MaxAccessRequests)
    /\ \E u \in AccessUsers, id \in MatchIds : GeneralUpdateBy(u, id)

AccessGeneralDestroy ==
    /\ Tick(MaxAccessRequests)
    /\ \E u \in AccessUsers, id \in MatchIds : GlobalMatchDestroy(u, id)

AccessGeneralManage ==
    /\ Tick(MaxAccessRequests)
    /\ \E u \in AccessUsers, id \in MatchIds : GeneralManageBy(u, id)

AccessTournamentWrite ==
    /\ Tick(MaxAccessRequests)
    /\ \E u \in AccessUsers, id \in MatchIds : TournamentWriteBy(u, id)

AccessTournamentCreate ==
    /\ Tick(MaxAccessRequests)
    /\ \E u \in AccessUsers \cup {Anon}, t \in Tournaments :
          Tournament_create_match(u, t, 1, 2, {}, {}, 1, "stade")

AccessSheetWrite ==
    /\ Tick(MaxAccessRequests)
    /\ \E id \in MatchIds : SheetWriteBy("viewer1", id)

NextAccess ==
    \/ AccessGeneralCreate
    \/ AccessGeneralUpdate
    \/ AccessGeneralDestroy
    \/ AccessGeneralManage
    \/ AccessTournamentWrite
    \/ AccessTournamentCreate
    \/ AccessSheetWrite

SpecAccess == InitAccess /\ [][NextAccess]_vars

\* a step that serves one write request of user u
WriteRequestBy(u) ==
    \/ GeneralCreateBy(u)
    \/ \E id \in MatchIds :
          \/ GeneralUpdateBy(u, id)
          \/ GlobalMatchDestroy(u, id)
          \/ GeneralManageBy(u, id)
          \/ TournamentWriteBy(u, id)
          \/ SheetWriteBy(u, id)

StoredRecords == <<roster, players, team_groups, tmatches, gmatches, lineups, events>>

\* C16: no create, update, delete, lifecycle transition, lineup or event edit
\* or player-stat update requested by a user of role viewer changes a stored
\* record, whatever team that user coaches.
ViewerNeverMutates ==
    [][WriteRequestBy("viewer1") => UNCHANGED StoredRecords]_vars

\* what a general create by u with a body has to do
GeneralCreateOutcome(u, body) ==
    LET valid == GlobalCreateValid(body)
        owns  == \A h \in body.home_team : club_owner(team_club(h)) = u
    IN  /\ (user_type(u) = "staff" /\ valid /\ owns /\ body.home_team # body.away_team)
            => (/\ response'.code = "ok"
                /\ \E id \in DOMAIN gmatches' \ DOMAIN gmatches :
                      /\ gmatches'[id].created_by = u
                      /\ {gmatches'[id].home_team} = body.home_team)
        /\ (user_type(u) = "staff" /\ valid /\ ~owns)
            => response'.code = "permission_denied"
        /\ (user_type(u) = "admin" /\ valid)
            => response'.code = "permission_denied"
        /\ user_type(u) = "admin" => response'.code # "ok"
        /\ response'.code = "permission_denied"
            => UNCHANGED <<tmatches, gmatches, lineups>>

\* C15: a general create (with a valid body of two different teams) by the
\* staff owner of home_team's club succeeds; by a staff user who does not own
\* that club it is denied with a permission error; by an admin it is always
\* denied; a denied create stores no Match and no MatchLineup row.
GeneralCreateByHomeClubOwner ==
    [][response'.op = "gmatch_create"
        => \A u \in AccessUsers, body \in AccessCreateBodies :
              GeneralCreateOutcome(u, body) \/ ~GlobalMatchCreate(u, body)]_vars

\* C15 witness: staff1, owner of the club of team 1, has just created a match
\* whose home_team is team 1
OwnerCreatedMatch ==
    /\ response = [op |-> "gmatch_create", code |-> "ok"]
    /\ 2 \in DOMAIN gmatches
    /\ gmatches[2].created_by = "staff1"
    /\ gmatches[2].home_team = 1
    /\ <<2, 1, 1>> \in DOMAIN lineups

\* a step that serves one request of u that targets general match id
MatchRequestBy(u, id) ==
    \/ GeneralUpdateBy(u, id)
    \/ GlobalMatchDestroy(u, id)
    \/ GeneralManageBy(u, id)

\* C17: a request of an admin or staff user that targets a match outside
\* the caller's visible set is answered not found, as for an identifier that
\* names no match.
InvisibleLooksAbsent ==
    [][\A u \in {v \in AccessUsers : IsAdminOrStaffUserType(v)}, id \in MatchIds :
          (MatchRequestBy(u, id) /\ id \notin get_user_allowed_matches(u))
              => response'.code = "not_found"]_vars

\* C18: a request to update, delete or move through a lifecycle transition a
\* general match whose created_by is set, sent by a user who is neither that
\* creator nor an admin, is refused and leaves the match, its lineups and its
\* events as they were: every step either is a refusal that changes none of
\* them, or is no such request.
CreatorOrAdminOnly ==
    [][\/ /\ response'.code \in {"permission_denied", "not_found"}
          /\ UNCHANGED <<gmatches, lineups, events>>
       \/ \A u \in AccessUsers, id \in DOMAIN gmatches :
             ~(/\ gmatches[id].created_by \notin {None, u}
               /\ user_type(u) # "admin"
               /\ MatchRequestBy(u, id))]_vars

\* C18 witness: match 2, created by staff1, is the only match left, and a
\* cancel request that targets it was refused with a permission error
OthersCancelRefused ==
    /\ response = [op |-> "cancel", code |-> "permission_denied"]
    /\ DOMAIN gmatches = {2}
    /\ gmatches[2] = SeedAdHocMatch

\* C19: a request to update, delete, start, finish or score a tournament
\* match, sent by a user who is not the organizer of its tournament (another
\* admin included), is refused and leaves the tournament Match table as it was:
\* every step either is a refusal that changes no tournament Match, or is no
\* such request.
OrganizerOnly ==
    [][\/ /\ response'.code \in {"permission_denied", "not_found"}
          /\ tmatches' = tmatches
       \/ \A u \in AccessUsers, id \in DOMAIN tmatches :
             ~(organizer(tmatches[id].tournament) # u /\ TournamentWriteBy(u, id))]_vars

\* C19 witness: both identifiers name tournament matches, of tournaments with
\* different organizers, and a score update by an admin was answered not found
OtherAdminScoreRefused ==
    /\ response = [op |-> "update_score", code |-> "not_found"]
    /\ DOMAIN tmatches = MatchIds
    /\ organizer(tmatches[1].tournament) # organizer(tmatches[2].tournament)

(***************************************************************************)
(* Groups specification: tournaments are created and updated, groups are   *)
(* created and deleted, and matches are created in a tournament, by the    *)
(* organizer admin1, by the viewer viewer1 and by an unauthenticated       *)
(* caller.  One league tournament with no group is stored at the start.    *)
(***************************************************************************)
MaxGroupsRequests == 3

GroupsUsers == {"admin1", "viewer1", Anon}

InitGroups ==
    /\ roster = EmptyRoster
    /\ players = SeedPlayers
    /\ team_groups = {}
    /\ tmatches = <<>>
    /\ gmatches = <<>>
    /\ lineups = <<>>
    /\ events = <<>>
    /\ response = NoResponse
    /\ listed = {}
    /\ lastSaved = {}
    /\ statLog = NoDeltas
    /\ served = 0
    /\ tournaments = Put(<<>>, 1, [tournament_type |-> "league", number_of_groups |-> 1,
                                   organizer |-> "admin1"])
    /\ groups = <<>>
    /\ inflight = <<>>

GroupsTournamentBodies ==
    [tournament_type : Opt(TournamentTypes), number_of_groups : Opt(1 .. MaxNumberOfGroups)]

GroupsTournamentCreate ==
    /\ Tick(MaxGroupsRequests)
    /\ \E u \in GroupsUsers, body \in GroupsTournamentBodies : Tournament_create(u, body)

GroupsTournamentUpdate ==
    /\ Tick(MaxGroupsRequests)
    /\ \E u \in GroupsUsers, t \in DOMAIN tournaments,
          body \in OneField("tournament_type", TournamentTypes)
                   \cup OneField("number_of_groups", 1 .. MaxNumberOfGroups) :
          Tournament_update(u, t, body)

GroupsPost ==
    /\ Tick(MaxGroupsRequests)
    /\ \E u \in GroupsUsers, t \in DOMAIN tournaments, name \in Opt(GroupNames) :
          Tournament_groups_post(u, t, name)

GroupsAddGroup ==
    /\ Tick(MaxGroupsRequests)
    /\ \E u \in GroupsUsers, t \in DOMAIN tournaments, name \in Opt(GroupNames) :
          add_group(u, t, name)

GroupsDelete ==
    /\ Tick(MaxGroupsRequests)
    /\ \E u \in GroupsUsers, t \in DOMAIN tournaments, g \in Groups :
          group_detail_delete(u, t, g)

GroupsCreateMatch ==
    /\ Tick(MaxGroupsRequests)
    /\ \E u \in GroupsUsers, t \in DOMAIN tournaments, g \in Opt(DOMAIN groups) :
          Tournament_create_match(u, t, 1, 2, g, {}, 1, "stade")

NextGroups ==
    \/ GroupsTournamentCreate
    \/ GroupsTournamentUpdate
    \/ GroupsPost
    \/ GroupsAddGroup
    \/ GroupsDelete
    \/ GroupsCreateMatch

SpecGroups == InitGroups /\ [][NextGroups]_vars

\* the TournamentGroup rows of tournament t
GroupsOf(t) == {g \in DOMAIN groups : groups[g].tournament = t}

\* C21: after any sequence of tournament create and update and group create
\* and delete requests, a tournament whose tournament_type is league has at
\* most one TournamentGroup.
LeagueHasOneGroup ==
    \A t \in DOMAIN tournaments :
        tournaments[t].tournament_type = "league" => Cardinality(GroupsOf(t)) <= 1

\* a step that serves one request of an unauthenticated caller to groups,
\* groups/create or matches/create
AnonymousCreateRequest ==
    \E t \in DOMAIN tournaments :
        \/ \E name \in Opt(GroupNames) : Tournament_groups_post(Anon, t, name)
        \/ \E name \in Opt(GroupNames) : add_group(Anon, t, name)
        \/ \E g \in Opt(DOMAIN groups) : Tournament_create_match(Anon, t, 1, 2, g, {}, 1, "stade")

\* C30: a request of an unauthenticated caller to groups, groups/create or
\* matches/create ends without a new TournamentGroup, Match, GlobalMatch or
\* lineup row: every step either leaves the four tables as they were, or is
\* no such request.
AnonymousCreatesNothing ==
    [][\/ UNCHANGED <<groups, tmatches, gmatches, lineups>>
       \/ ~AnonymousCreateRequest]_vars

\* C30 witness: every stored tournament is organized by admin1, the only
\* other caller, viewer1, sees every tournament, a group is stored, and a
\* groups/create request was answered not found: the unauthenticated caller's
AnonymousAddGroupRefused ==
    /\ response = [op |-> "add_group", code |-> "not_found"]
    /\ \A t \in DOMAIN tournaments : organizer(t) = "admin1"
    /\ groups # <<>>
(***************************************************************************)
(* Race specification: requests of the club owners that each save an       *)
(* active main player (a create, or set_as_main on a substitute), served   *)
(* concurrently, from a database in which team 1 holds SeedMain active     *)
(* main players and every team one substitute.                             *)
(***************************************************************************)
MaxRaceRequests == 3

BenchRow(t) == [team |-> t, is_main_player |-> FALSE, is_active |-> TRUE]

InitRace ==
    /\ InitTables
    /\ players = <<>>
    /\ roster = [r \in PlayerRow |-> IF r = MainRow(1) THEN SeedMain
                                     ELSE IF r \in {BenchRow(t) : t \in Teams} THEN 1
                                     ELSE 0]

RaceCreateChecks ==
    /\ Tick(MaxRaceRequests)
    /\ \E u \in RosterUsers, t \in Teams : PlayerCreate_checks(served + 1, u, t, t, TRUE, TRUE)

\* each request names a stored substitute that no request in flight names
RaceSetAsMainChecks ==
    /\ Tick(MaxRaceRequests)
    /\ \E u \in RosterUsers, t \in Teams :
          /\ \A q \in DOMAIN inflight : inflight[q].old # {BenchRow(t)}
          /\ set_as_main_checks(served + 1, u, BenchRow(t))

RaceWrite ==
    /\ UNCHANGED served
    /\ \E r \in DOMAIN inflight : Player_save_write(r)

NextRace ==
    \/ RaceCreateChecks
    \/ RaceSetAsMainChecks
    \/ RaceWrite

SpecRace == InitRace /\ [][NextRace]_vars

\* C22: two concurrent requests that each save a main player for one team
\* can interleave their count checks and their writes so that a team holding
\* 10 active main players ends with 12 committed (witness); the limit is
\* passed through such an interleaving only: a write that finds the table as
\* the checks of its request read it leaves the team of its row with 11 at
\* most.
RaceOnlyWhenInterleaved ==
    [][\A r \in DOMAIN inflight :
          (Player_save_write(r) /\ inflight[r].snapshot = roster)
              => roster'[MainRow(inflight[r].new.team)] <= MAX_MAIN_PLAYERS]_vars

\* C22 witness: every request has written, and team 1 holds 12 active main
\* players, two more than it started with
RaceTwelveCommitted ==
    /\ inflight = <<>>
    /\ SeedMain = MAX_MAIN_PLAYERS - 1
    /\ roster[MainRow(1)] = MAX_MAIN_PLAYERS + 1
(***************************************************************************)
(* Tally specification: lineup edits and goal events of staff users on the *)
(* two lineup rows of player 1 (one per match), served concurrently.       *)
(***************************************************************************)
MaxTallyRequests == 2

TallyKeys == {<<1, 1, 1>>, <<2, 1, 1>>}

InitTally ==
    /\ roster = EmptyRoster
    /\ players = SeedPlayers
    /\ team_groups = {}
    /\ tmatches = <<>>
    /\ gmatches = [m \in {1, 2} |-> SeedAdHocMatch]
    /\ lineups = [k \in TallyKeys |-> NewLineup]
    /\ events = <<>>
    /\ response = NoResponse
    /\ listed = {}
    /\ lastSaved = {}
    /\ statLog = NoDeltas
    /\ served = 0
    /\ SeedWorld

TallyUpdateReads ==
    /\ Tick(MaxTallyRequests)
    /\ \E u \in {"staff1", "staff2"}, k \in TallyKeys,
          body \in OneField("goals_scored", {1, MaxStat}) \cup OneField("assists", {1}) :
          MatchLineupUpdate_reads(served + 1, u, k, body)

TallyEventReads ==
    /\ Tick(MaxTallyRequests)
    /\ \E u \in {"staff1", "staff2"}, k \in TallyKeys :
          MatchEventCreate_reads(served + 1, u, k[1], k[2], k[3], "goal")

TallyWritePlayer ==
    /\ UNCHANGED served
    /\ \E r \in DOMAIN inflight : update_player_stats_write(r)

TallyWriteLineup ==
    /\ UNCHANGED served
    /\ \E r \in DOMAIN inflight : MatchLineup_save_write(r)

NextTally ==
    \/ TallyUpdateReads
    \/ TallyEventReads
    \/ TallyWritePlayer
    \/ TallyWriteLineup

SpecTally == InitTally /\ [][NextTally]_vars

\* the saves completed so far on the rows of player p
SavesOf(p) == {i \in DOMAIN statLog.saves : statLog.saves[i].key[3] = p}

\* C23: once concurrent stat updates on one lineup row, or on two rows of one
\* player, have all completed, each career counter of the player is its
\* initial value plus the deltas (new - old) of all of them, and each lineup
\* row holds its initial value or the value one of them wrote: no update is
\* lost, whatever the interleaving of their reads and writes.
NoLostStatUpdate ==
    inflight = <<>> =>
        /\ \A p \in DOMAIN players : \A f \in StatFields :
              players[p][f] = SeedPlayers[p][f]
                  + SumOver([i \in SavesOf(p) |-> statLog.saves[i].new[f]
                                                    - statLog.saves[i].old[f]], SavesOf(p))
        /\ \A k \in DOMAIN lineups :
              \/ lineups[k] = NewLineup
              \/ \E i \in DOMAIN statLog.saves :
                    statLog.saves[i].key = k /\ statLog.saves[i].new = lineups[k]
=============================================================================
